---- MODULE Spec2Model ----
(***************************************************************************)
(* Model of the native inference bridge of AI-Ish: the llama.cpp bridge    *)
(* (llm_bridge.cpp) and the whisper.cpp bridge (whisper_bridge.cpp).       *)
(*                                                                         *)
(* Every JNI entry point is a sequence of steps, one per access to the     *)
(* global slots, executed by a calling thread.  pc[t] is the position of   *)
(* thread t inside the entry point it is executing ("idle" between calls). *)
(* Native resources are addresses; the sets live* are the addresses whose  *)
(* resource has been created and not yet released by the engine.           *)
(***************************************************************************)
EXTENDS Integers, FiniteSets, Sequences, TLC

\* ------------------------------------------------------------------ bounds
\* number of distinct addresses the allocator hands out per resource kind
MaxHandles == 3
\* largest token id of the vocabulary
MaxToken == 2
\* largest capacity of the output array handed to nativeTokenize
MaxTextTokens == 2
\* largest number of characters of a text handed to nativeTokenize
MaxTextLen == 1
\* largest number of segments a whisper_full pass produces
MaxSegments == 2

\* ------------------------------------------------------------- constants
NULL == 0
Handles == 1..MaxHandles
Tokens == 0..MaxToken
NoThread == "none"
Threads == {"t1", "t2"}
MainThread == "t1"
Languages == {"en", "fr"}

\* return codes of the entry points
RET_OK == 0
RET_ERROR == -1
RET_DECODE_FAILED == -2
JNI_TRUE == 1
JNI_FALSE == 0
\* the end-of-sequence marker of a loaded vocabulary
VocabEos == 0
\* the beginning-of-sequence marker of a loaded vocabulary
VocabBos == 1
\* a token id outside the vocabulary
InvalidToken == -1
\* the ids of the tokens that stand for text
TextTokens == Tokens \ {VocabEos, VocabBos}
\* the texts handed to nativeTokenize
Chars == {"a"}
Texts == UNION {[1..n -> Chars] : n \in 0..MaxTextLen}
\* sampling parameters handed to nativeGenerate, in tenths
Temperatures == {2, 8}
TopPs == {5, 9}
\* values of gpuLayers handed to a model load
GpuLayers == {0, 1}
\* the runtime grants context sizes in multiples of CtxPad
CtxPad == 2
\* values of contextSize handed to nativeInitContext
ContextSizes == {1, 2}
\* numbers of cores of the host a call runs on
Cores == {2, 8}
\* the inputs of an entry point that takes none
NoArg == [none |-> TRUE]
\* no parameters have been handed to a runtime yet
NoParams == [none |-> TRUE]
\* no whisper_full pass has run yet
NoPass == [params |-> NoParams, result |-> 0, n_segments |-> 0, lang |-> ""]
\* workload kinds that load through the llama.cpp bridge
Workloads == {"language-model", "vision"}

VARIABLES
    g_model,                \* llm_bridge.cpp: loaded llama_model*, or NULL
    g_context,              \* llm_bridge.cpp: llama_context*, or NULL
    g_sampler,              \* llm_bridge.cpp: llama_sampler*, or NULL
    g_model_mutex,          \* thread holding g_model_mutex, or NoThread
    g_backend_initialized,  \* llama_backend_init() has run
    liveModels,             \* llama_model objects not yet freed
    liveContexts,           \* llama_context objects not yet freed
    liveSamplers,           \* llama_sampler objects not yet freed
    ctx_model,              \* the model the context in g_context was built from
    g_whisper_ctx,          \* whisper_bridge.cpp: whisper_context*, or NULL
    g_whisper_mutex,        \* thread holding g_whisper_mutex, or NoThread
    g_detected_language,    \* whisper_bridge.cpp: current language tag
    g_whisper_initialized,  \* whisper_bridge.cpp: initialization flag
    liveWhisper,            \* whisper_context objects not yet freed
    pc,                     \* position of each thread
    op,                     \* entry point each thread called last
    ret,                    \* value returned by each thread's last call
    arg,                    \* inputs of each thread's last call
    tokensOut,              \* elements nativeTokenize wrote to the caller's array
    sampler_chain,          \* stages added to each llama_sampler chain
    ctx_poisoned,           \* a decode on the context in g_context has failed
    ret_str,                \* string returned by each thread's last call
    model_owner,            \* workload whose load installed the model in g_model
    model_params,           \* llama_model_params of the last model load
    ctx_params,             \* thread settings of the last context creation
    whisper_pass,           \* the last whisper_full pass: parameters and outcome
    g_npuAvailable,         \* npu_delegate.cpp: result of the last NPU detection
    g_npuInitialized,       \* npu_delegate.cpp: NNAPI runtime initialised
    nnapi_delegate,         \* delegate the last vision model load reported
    gpu_available,          \* what nativeIsGPUAvailable last reported
    g_cl_platform,          \* gpu_backend.cpp: cl_platform_id, or NULL
    g_cl_device,            \* gpu_backend.cpp: cl_device_id, or NULL
    g_cl_context,           \* gpu_backend.cpp: cl_context, or NULL
    g_cl_queue,             \* gpu_backend.cpp: cl_command_queue, or NULL
    g_opencl_initialized,   \* gpu_backend.cpp: initialisation flag
    liveClContexts,         \* cl_context objects not yet released
    liveClQueues,           \* cl_command_queue objects not yet released
    releasedTwice           \* cl_context objects released after their release

llmVars == <<g_model, g_context, g_sampler, g_model_mutex, g_backend_initialized,
             liveModels, liveContexts, liveSamplers, ctx_model>>
whisperVars == <<g_whisper_ctx, g_whisper_mutex, g_detected_language,
                 g_whisper_initialized, liveWhisper>>
vars == <<g_model, g_context, g_sampler, g_model_mutex, g_backend_initialized,
          liveModels, liveContexts, liveSamplers, ctx_model,
          g_whisper_ctx, g_whisper_mutex, g_detected_language,
          g_whisper_initialized, liveWhisper, pc, op, ret,
          arg, tokensOut, sampler_chain, ctx_poisoned,
          ret_str, model_owner, model_params, ctx_params, whisper_pass,
          g_npuAvailable, g_npuInitialized, nnapi_delegate, gpu_available,
          g_cl_platform, g_cl_device,
          g_cl_context, g_cl_queue, g_opencl_initialized, liveClContexts,
          liveClQueues, releasedTwice>>
callVars == <<arg, tokensOut, ret_str>>
runtimeVars == <<model_owner, model_params, ctx_params, whisper_pass>>
engineVars == <<sampler_chain, ctx_poisoned, runtimeVars>>
llamaEngineVars == <<sampler_chain, ctx_poisoned, model_owner, model_params,
                     ctx_params>>
clVars == <<g_cl_platform, g_cl_device, g_cl_context, g_cl_queue,
           g_opencl_initialized, liveClContexts, liveClQueues, releasedTwice>>
accelVars == <<g_npuAvailable, g_npuInitialized, nnapi_delegate, gpu_available,
              clVars>>

\* ------------------------------------------------------------ allocation
\* An address the engine's allocator can return: not occupied by a live
\* object.  Addresses still referenced by a slot are skipped as well, so a
\* stale pointer is never confused with a new object.
FreeAddrs(live, refs) == Handles \ (live \cup refs)

NewAddr(live, refs) ==
    CHOOSE a \in FreeAddrs(live, refs) : \A b \in FreeAddrs(live, refs) : a <= b

\* ------------------------------------------------------------------ Init
Init ==
    /\ g_model = NULL
    /\ g_context = NULL
    /\ g_sampler = NULL
    /\ g_model_mutex = NoThread
    /\ g_backend_initialized = FALSE
    /\ liveModels = {}
    /\ liveContexts = {}
    /\ liveSamplers = {}
    /\ ctx_model = NULL
    /\ g_whisper_ctx = NULL
    /\ g_whisper_mutex = NoThread
    /\ g_detected_language = "en"
    /\ g_whisper_initialized = FALSE
    /\ liveWhisper = {}
    /\ pc = [t \in Threads |-> "idle"]
    /\ op = [t \in Threads |-> "none"]
    /\ ret = [t \in Threads |-> RET_OK]
    /\ arg = [t \in Threads |-> NoArg]
    /\ tokensOut = [t \in Threads |-> <<>>]
    /\ sampler_chain = [h \in Handles |-> <<>>]
    /\ ctx_poisoned = FALSE
    /\ ret_str = [t \in Threads |-> ""]
    /\ model_owner = "none"
    /\ model_params = NoParams
    /\ ctx_params = NoParams
    /\ whisper_pass = NoPass
    /\ g_npuAvailable = FALSE
    /\ g_npuInitialized = FALSE
    /\ nnapi_delegate = "none"
    /\ gpu_available = FALSE
    /\ g_cl_platform = NULL
    /\ g_cl_device = NULL
    /\ g_cl_context = NULL
    /\ g_cl_queue = NULL
    /\ g_opencl_initialized = FALSE
    /\ liveClContexts = {}
    /\ liveClQueues = {}
    /\ releasedTwice = {}

\* ------------------------------------------------------- control helpers
\* the entry points of llm_bridge.cpp and whisper_bridge.cpp, whose steps
\* these helpers move, have no access to the statics of npu_delegate.cpp
Goto(t, p) ==
    /\ pc' = [pc EXCEPT ![t] = p]
    /\ UNCHANGED accelVars

Return(t, v) ==
    /\ pc' = [pc EXCEPT ![t] = "idle"]
    /\ ret' = [ret EXCEPT ![t] = v]
    /\ UNCHANGED accelVars

\* a thread enters an entry point with inputs a; the caller's output array
\* is fresh
EnterWith(t, o, p, a) ==
    /\ pc[t] = "idle"
    /\ pc' = [pc EXCEPT ![t] = p]
    /\ op' = [op EXCEPT ![t] = o]
    /\ ret' = [ret EXCEPT ![t] = RET_OK]
    /\ arg' = [arg EXCEPT ![t] = a]
    /\ tokensOut' = [tokensOut EXCEPT ![t] = <<>>]
    /\ ret_str' = [ret_str EXCEPT ![t] = ""]
    /\ UNCHANGED <<llmVars, whisperVars, engineVars, accelVars>>

\* a thread enters an entry point that takes no modelled input
Enter(t, o, p) == EnterWith(t, o, p, NoArg)

\* ------------------------------------------------- llama sampler chains
\* seed handed to the stochastic draw: the 32-bit pattern 0xFFFFFFFF, written
\* as the signed integer with that pattern
LLAMA_DEFAULT_SEED == -1

\* llama_sampler_chain_init: the chain at address h starts without stages
llama_sampler_chain_init(h) == [sampler_chain EXCEPT ![h] = <<>>]

\* llama_sampler_free: the chain at address h and its stages are gone
llama_sampler_free(h) ==
    IF h \in Handles THEN [sampler_chain EXCEPT ![h] = <<>>] ELSE sampler_chain

\* llama_sampler_chain_add: stage is appended to the chain at address h;
\* a released chain holds nothing
llama_sampler_chain_add(chains, h, stage) ==
    IF h \in liveSamplers THEN [chains EXCEPT ![h] = Append(@, stage)] ELSE chains

llama_sampler_init_top_p(p) == [kind |-> "top_p", param |-> p]
llama_sampler_init_temp(temp) == [kind |-> "temp", param |-> temp]
llama_sampler_init_dist == [kind |-> "dist", param |-> LLAMA_DEFAULT_SEED]

\* ------------------------------------------------------------ LLM bridge
ensure_backend_initialized ==
    g_backend_initialized' = TRUE

\* mutant of nativeLoadModel_lock: nativeLoadVisionModel takes g_model_mutex
\* itself before it calls nativeLoadModel, which then waits for it
nativeLoadModel_lock_reentered(t) ==
    /\ pc[t] = "load_lock"
    /\ g_model_mutex = NoThread
    /\ g_model_mutex' = t
    /\ ensure_backend_initialized
    /\ IF op[t] = "nativeLoadVisionModel"
         THEN Goto(t, "load_lock")
         ELSE Goto(t, "load_free")
    /\ UNCHANGED <<callVars, engineVars,
                   g_model, g_context, g_sampler, liveModels, liveContexts,
                   liveSamplers, ctx_model, whisperVars, op, ret>>

\* std::lock_guard on g_model_mutex, then ensure_backend_initialized()
nativeLoadModel_lock(t) ==
    /\ pc[t] = "load_lock"
    /\ g_model_mutex = NoThread
    /\ g_model_mutex' = t
    /\ ensure_backend_initialized
    /\ Goto(t, "load_free")
    /\ UNCHANGED <<callVars, engineVars,
                   g_model, g_context, g_sampler, liveModels, liveContexts,
                   liveSamplers, ctx_model, whisperVars, op, ret>>

\* mutant of nativeLoadModel_free: the existing model is not released before
\* the new file is loaded
nativeLoadModel_free_leak(t) ==
    /\ pc[t] = "load_free"
    /\ Goto(t, "load_file")
    /\ UNCHANGED <<callVars, engineVars, llmVars, whisperVars, op, ret>>

\* if (g_model != nullptr) llama_model_free(g_model);
nativeLoadModel_free(t) ==
    /\ pc[t] = "load_free"
    /\ IF g_model # NULL
         THEN /\ liveModels' = liveModels \ {g_model}
              /\ Goto(t, "load_null")
         ELSE /\ UNCHANGED liveModels
              /\ Goto(t, "load_file")
    /\ UNCHANGED <<callVars, engineVars,
                   g_model, g_context, g_sampler, g_model_mutex,
                   g_backend_initialized, liveContexts, liveSamplers, ctx_model,
                   whisperVars, op, ret>>

\* g_model = nullptr;
nativeLoadModel_null(t) ==
    /\ pc[t] = "load_null"
    /\ g_model' = NULL
    /\ model_owner' = "none"
    /\ Goto(t, "load_file")
    /\ UNCHANGED <<callVars, sampler_chain, ctx_poisoned, model_params,
                   ctx_params, whisper_pass,
                   g_context, g_sampler, g_model_mutex, g_backend_initialized,
                   liveModels, liveContexts, liveSamplers, ctx_model,
                   whisperVars, op, ret>>

\* entry points of the vision workload that run the language-model ones
VisionOps == {"nativeLoadVisionModel", "nativeReleaseVisionModel"}

\* the workload kind an entry point belongs to
WorkloadOf(o) == IF o \in VisionOps THEN "vision" ELSE "language-model"

\* model_params = llama_model_default_params();
\* model_params.n_gpu_layers = gpuLayers; use_mmap = true; use_mlock = false;
llama_model_params(gpuLayers) ==
    [n_gpu_layers |-> gpuLayers, use_mmap |-> TRUE, use_mlock |-> FALSE]

\* what the caller gets from a load: nativeLoadModel returns result,
\* nativeLoadVisionModel returns (result == 0) ? JNI_TRUE : JNI_FALSE
LoadResult(t, result) ==
    IF op[t] = "nativeLoadVisionModel"
      THEN (IF result = 0 THEN JNI_TRUE ELSE JNI_FALSE)
      ELSE result

\* g_model = llama_model_load_from_file(path, model_params); the file may be
\* unreadable or malformed, in which case the engine returns nullptr.
nativeLoadModel_file(t) ==
    /\ pc[t] = "load_file"
    /\ model_params' = llama_model_params(arg[t].gpuLayers)
    /\ \/ /\ g_model' = NULL
          /\ model_owner' = "none"
          /\ UNCHANGED liveModels
          /\ Return(t, LoadResult(t, RET_ERROR))
       \/ /\ FreeAddrs(liveModels, {g_model, ctx_model}) # {}
          /\ g_model' = NewAddr(liveModels, {g_model, ctx_model})
          /\ model_owner' = WorkloadOf(op[t])
          /\ liveModels' = liveModels \cup {g_model'}
          /\ Return(t, LoadResult(t, RET_OK))
    /\ g_model_mutex' = NoThread
    /\ UNCHANGED <<callVars, sampler_chain, ctx_poisoned, ctx_params,
                   whisper_pass,
                   g_context, g_sampler, g_backend_initialized, liveContexts,
                   liveSamplers, ctx_model, whisperVars, op>>

nativeLoadModel(t) ==
    \/ nativeLoadModel_lock(t)
    \/ nativeLoadModel_free(t)
    \/ nativeLoadModel_null(t)
    \/ nativeLoadModel_file(t)

\* mutant of nativeInitContext_lock: the g_model == nullptr check is missing
nativeInitContext_lock_nocheck(t) ==
    /\ pc[t] = "init_lock"
    /\ g_model_mutex = NoThread
    /\ g_model_mutex' = t
    /\ Goto(t, "init_free")
    /\ UNCHANGED <<callVars, engineVars,
                   g_model, g_context, g_sampler, g_backend_initialized,
                   liveModels, liveContexts, liveSamplers, ctx_model,
                   whisperVars, op, ret>>

\* std::lock_guard on g_model_mutex, then the g_model == nullptr check
nativeInitContext_lock(t) ==
    /\ pc[t] = "init_lock"
    /\ g_model_mutex = NoThread
    /\ IF g_model = NULL
         THEN /\ Return(t, RET_ERROR)
              /\ UNCHANGED g_model_mutex
         ELSE /\ g_model_mutex' = t
              /\ Goto(t, "init_free")
              /\ UNCHANGED ret
    /\ UNCHANGED <<callVars, engineVars,
                   g_model, g_context, g_sampler, g_backend_initialized,
                   liveModels, liveContexts, liveSamplers, ctx_model,
                   whisperVars, op>>

\* mutant of nativeInitContext_free: the context is kept while the new one is
\* created
nativeInitContext_free_keep(t) ==
    /\ pc[t] = "init_free"
    /\ Goto(t, "init_create")
    /\ UNCHANGED <<callVars, engineVars, llmVars, whisperVars, op, ret>>

\* if (g_context != nullptr) llama_free(g_context);
nativeInitContext_free(t) ==
    /\ pc[t] = "init_free"
    /\ IF g_context # NULL
         THEN /\ liveContexts' = liveContexts \ {g_context}
              /\ Goto(t, "init_null")
         ELSE /\ UNCHANGED liveContexts
              /\ Goto(t, "init_create")
    /\ UNCHANGED <<callVars, engineVars,
                   g_model, g_context, g_sampler, g_model_mutex,
                   g_backend_initialized, liveModels, liveSamplers, ctx_model,
                   whisperVars, op, ret>>

\* g_context = nullptr;
nativeInitContext_null(t) ==
    /\ pc[t] = "init_null"
    /\ g_context' = NULL
    /\ ctx_model' = NULL
    /\ ctx_poisoned' = FALSE
    /\ Goto(t, "init_create")
    /\ UNCHANGED <<callVars, sampler_chain, runtimeVars,
                   g_model, g_sampler, g_model_mutex, g_backend_initialized,
                   liveModels, liveContexts, liveSamplers, whisperVars, op, ret>>

\* llama_n_ctx: the size of a context created with ctx_params.n_ctx = n_ctx,
\* the requested size rounded up to what the runtime grants
llama_n_ctx(n_ctx) ==
    IF n_ctx % CtxPad = 0 THEN n_ctx ELSE n_ctx + CtxPad - (n_ctx % CtxPad)

\* ctx_params.n_threads = 4; ctx_params.n_threads_batch = 4;  the thread
\* settings of the parameters; ctx_params.n_ctx is the call's contextSize,
\* which arg holds
llama_context_params == [n_threads |-> 4, n_threads_batch |-> 4]

\* g_context = llama_init_from_model(g_model, ctx_params); the engine returns
\* nullptr when it cannot create the context.
nativeInitContext_create(t) ==
    /\ pc[t] = "init_create"
    /\ ctx_params' = llama_context_params
    /\ \/ /\ g_context' = NULL
          /\ ctx_model' = NULL
          /\ UNCHANGED liveContexts
          /\ g_model_mutex' = NoThread
          /\ Return(t, RET_ERROR)
       \/ /\ FreeAddrs(liveContexts, {g_context}) # {}
          /\ g_context' = NewAddr(liveContexts, {g_context})
          /\ ctx_model' = g_model
          /\ liveContexts' = liveContexts \cup {g_context'}
          /\ Goto(t, "init_sampler_free")
          /\ UNCHANGED <<g_model_mutex, ret>>
    /\ ctx_poisoned' = FALSE
    /\ UNCHANGED <<callVars, sampler_chain, model_owner, model_params,
                   whisper_pass,
                   g_model, g_sampler, g_backend_initialized, liveModels,
                   liveSamplers, whisperVars, op>>

\* mutant of nativeInitContext_sampler_free: the prior sampler is not released
nativeInitContext_sampler_free_skip(t) ==
    /\ pc[t] = "init_sampler_free"
    /\ Goto(t, "init_sampler")
    /\ UNCHANGED <<callVars, engineVars, llmVars, whisperVars, op, ret>>

\* if (g_sampler != nullptr) llama_sampler_free(g_sampler);
nativeInitContext_sampler_free(t) ==
    /\ pc[t] = "init_sampler_free"
    /\ IF g_sampler # NULL
         THEN /\ liveSamplers' = liveSamplers \ {g_sampler}
              /\ sampler_chain' = llama_sampler_free(g_sampler)
         ELSE UNCHANGED <<liveSamplers, sampler_chain>>
    /\ Goto(t, "init_sampler")
    /\ UNCHANGED <<callVars, ctx_poisoned, runtimeVars,
                   g_model, g_context, g_sampler, g_model_mutex,
                   g_backend_initialized, liveModels, liveContexts, ctx_model,
                   whisperVars, op, ret>>

\* g_sampler = llama_sampler_chain_init(sampler_params); return 0;
nativeInitContext_sampler(t) ==
    /\ pc[t] = "init_sampler"
    /\ FreeAddrs(liveSamplers, {g_sampler}) # {}
    /\ g_sampler' = NewAddr(liveSamplers, {g_sampler})
    /\ liveSamplers' = liveSamplers \cup {g_sampler'}
    /\ sampler_chain' = llama_sampler_chain_init(g_sampler')
    /\ g_model_mutex' = NoThread
    /\ Return(t, RET_OK)
    /\ UNCHANGED <<callVars, ctx_poisoned, runtimeVars,
                   g_model, g_context, g_backend_initialized, liveModels,
                   liveContexts, ctx_model, whisperVars, op>>

nativeInitContext(t) ==
    \/ nativeInitContext_lock(t)
    \/ nativeInitContext_free(t)
    \/ nativeInitContext_null(t)
    \/ nativeInitContext_create(t)
    \/ nativeInitContext_sampler_free(t)
    \/ nativeInitContext_sampler(t)

\* if (g_context == nullptr) return -1;   (no lock is taken)
nativeGenerate_check(t) ==
    /\ pc[t] = "gen_check"
    /\ IF g_context = NULL
         THEN Return(t, RET_ERROR)
         ELSE Goto(t, "gen_decode") /\ UNCHANGED ret
    /\ UNCHANGED <<callVars, engineVars, llmVars, whisperVars, op>>

\* mutant of nativeGenerate_decode: a failed decode is reported with the
\* no-context code
nativeGenerate_decode_as_no_context(t) ==
    /\ pc[t] = "gen_decode"
    /\ \/ Return(t, RET_ERROR) /\ ctx_poisoned' = TRUE
       \/ Goto(t, "gen_sampler_check") /\ UNCHANGED <<ret, ctx_poisoned>>
    /\ UNCHANGED <<callVars, sampler_chain, runtimeVars, llmVars, whisperVars, op>>

\* if (llama_decode(g_context, batch) != 0) return -2;
\* The engine decides whether the decode succeeds; when g_context has been
\* released by another thread the behaviour is undefined and either outcome
\* remains possible.
nativeGenerate_decode(t) ==
    /\ pc[t] = "gen_decode"
    /\ \/ Return(t, RET_DECODE_FAILED) /\ ctx_poisoned' = TRUE
       \/ Goto(t, "gen_sampler_check") /\ UNCHANGED <<ret, ctx_poisoned>>
    /\ UNCHANGED <<callVars, sampler_chain, runtimeVars, llmVars, whisperVars, op>>

\* if (g_sampler == nullptr) g_sampler = llama_sampler_chain_init(sampler_params);
nativeGenerate_sampler_check(t) ==
    /\ pc[t] = "gen_sampler_check"
    /\ IF g_sampler = NULL
         THEN /\ FreeAddrs(liveSamplers, {g_sampler}) # {}
              /\ g_sampler' = NewAddr(liveSamplers, {g_sampler})
              /\ liveSamplers' = liveSamplers \cup {g_sampler'}
              /\ sampler_chain' = llama_sampler_chain_init(g_sampler')
         ELSE UNCHANGED <<g_sampler, liveSamplers, sampler_chain>>
    /\ Goto(t, "gen_sampler_free")
    /\ UNCHANGED <<callVars, ctx_poisoned, runtimeVars,
                   g_model, g_context, g_model_mutex, g_backend_initialized,
                   liveModels, liveContexts, ctx_model, whisperVars, op, ret>>

\* llama_sampler_free(g_sampler);
nativeGenerate_sampler_free(t) ==
    /\ pc[t] = "gen_sampler_free"
    /\ liveSamplers' = liveSamplers \ {g_sampler}
    /\ sampler_chain' = llama_sampler_free(g_sampler)
    /\ Goto(t, "gen_sampler_new")
    /\ UNCHANGED <<callVars, ctx_poisoned, runtimeVars,
                   g_model, g_context, g_sampler, g_model_mutex,
                   g_backend_initialized, liveModels, liveContexts, ctx_model,
                   whisperVars, op, ret>>

\* g_sampler = llama_sampler_chain_init(sampler_params);
nativeGenerate_sampler_new(t) ==
    /\ pc[t] = "gen_sampler_new"
    /\ FreeAddrs(liveSamplers, {g_sampler}) # {}
    /\ g_sampler' = NewAddr(liveSamplers, {g_sampler})
    /\ liveSamplers' = liveSamplers \cup {g_sampler'}
    /\ sampler_chain' = llama_sampler_chain_init(g_sampler')
    /\ Goto(t, "gen_chain_add")
    /\ UNCHANGED <<callVars, ctx_poisoned, runtimeVars,
                   g_model, g_context, g_model_mutex, g_backend_initialized,
                   liveModels, liveContexts, ctx_model, whisperVars, op, ret>>

\* mutant of nativeGenerate_chain_add: temperature scaling is added before
\* top-p filtering
nativeGenerate_chain_add_temp_first(t) ==
    /\ pc[t] = "gen_chain_add"
    /\ sampler_chain' =
          llama_sampler_chain_add(
            llama_sampler_chain_add(
              llama_sampler_chain_add(sampler_chain, g_sampler,
                                      llama_sampler_init_temp(arg[t].temperature)),
              g_sampler, llama_sampler_init_top_p(arg[t].topP)),
            g_sampler, llama_sampler_init_dist)
    /\ Goto(t, "gen_sample")
    /\ UNCHANGED <<callVars, ctx_poisoned, runtimeVars, llmVars, whisperVars, op, ret>>

\* llama_sampler_chain_add(g_sampler, llama_sampler_init_top_p(topP, 1));
\* llama_sampler_chain_add(g_sampler, llama_sampler_init_temp(temperature));
\* llama_sampler_chain_add(g_sampler, llama_sampler_init_dist(LLAMA_DEFAULT_SEED));
nativeGenerate_chain_add(t) ==
    /\ pc[t] = "gen_chain_add"
    /\ sampler_chain' =
          llama_sampler_chain_add(
            llama_sampler_chain_add(
              llama_sampler_chain_add(sampler_chain, g_sampler,
                                      llama_sampler_init_top_p(arg[t].topP)),
              g_sampler, llama_sampler_init_temp(arg[t].temperature)),
            g_sampler, llama_sampler_init_dist)
    /\ Goto(t, "gen_sample")
    /\ UNCHANGED <<callVars, ctx_poisoned, runtimeVars, llmVars, whisperVars, op, ret>>

\* return llama_sampler_sample(g_sampler, g_context, -1);
nativeGenerate_sample(t) ==
    /\ pc[t] = "gen_sample"
    /\ \E new_token \in Tokens : Return(t, new_token)
    /\ UNCHANGED <<callVars, engineVars, llmVars, whisperVars, op>>

nativeGenerate(t) ==
    \/ nativeGenerate_check(t)
    \/ nativeGenerate_decode(t)
    \/ nativeGenerate_sampler_check(t)
    \/ nativeGenerate_sampler_free(t)
    \/ nativeGenerate_sampler_new(t)
    \/ nativeGenerate_chain_add(t)
    \/ nativeGenerate_sample(t)

\* mutant of nativeFree_lock: the teardown starts with the model
nativeFree_lock_model_first(t) ==
    /\ pc[t] = "free_lock"
    /\ g_model_mutex = NoThread
    /\ g_model_mutex' = t
    /\ Goto(t, "free_model")
    /\ UNCHANGED <<callVars, engineVars,
                   g_model, g_context, g_sampler, g_backend_initialized,
                   liveModels, liveContexts, liveSamplers, ctx_model,
                   whisperVars, op, ret>>

\* std::lock_guard on g_model_mutex
nativeFree_lock(t) ==
    /\ pc[t] = "free_lock"
    /\ g_model_mutex = NoThread
    /\ g_model_mutex' = t
    /\ Goto(t, "free_sampler")
    /\ UNCHANGED <<callVars, engineVars,
                   g_model, g_context, g_sampler, g_backend_initialized,
                   liveModels, liveContexts, liveSamplers, ctx_model,
                   whisperVars, op, ret>>

\* mutant of nativeFree_sampler: the sampler is not torn down
nativeFree_sampler_skip(t) ==
    /\ pc[t] = "free_sampler"
    /\ Goto(t, "free_context")
    /\ UNCHANGED <<callVars, engineVars, llmVars, whisperVars, op, ret>>

\* if (g_sampler != nullptr) llama_sampler_free(g_sampler);
nativeFree_sampler(t) ==
    /\ pc[t] = "free_sampler"
    /\ IF g_sampler # NULL
         THEN /\ liveSamplers' = liveSamplers \ {g_sampler}
              /\ sampler_chain' = llama_sampler_free(g_sampler)
              /\ Goto(t, "free_sampler_null")
         ELSE /\ UNCHANGED <<liveSamplers, sampler_chain>>
              /\ Goto(t, "free_context")
    /\ UNCHANGED <<callVars, ctx_poisoned, runtimeVars,
                   g_model, g_context, g_sampler, g_model_mutex,
                   g_backend_initialized, liveModels, liveContexts, ctx_model,
                   whisperVars, op, ret>>

\* g_sampler = nullptr;
nativeFree_sampler_null(t) ==
    /\ pc[t] = "free_sampler_null"
    /\ g_sampler' = NULL
    /\ Goto(t, "free_context")
    /\ UNCHANGED <<callVars, engineVars,
                   g_model, g_context, g_model_mutex, g_backend_initialized,
                   liveModels, liveContexts, liveSamplers, ctx_model,
                   whisperVars, op, ret>>

\* if (g_context != nullptr) llama_free(g_context);
nativeFree_context(t) ==
    /\ pc[t] = "free_context"
    /\ IF g_context # NULL
         THEN /\ liveContexts' = liveContexts \ {g_context}
              /\ Goto(t, "free_context_null")
         ELSE /\ UNCHANGED liveContexts
              /\ Goto(t, "free_model")
    /\ UNCHANGED <<callVars, engineVars,
                   g_model, g_context, g_sampler, g_model_mutex,
                   g_backend_initialized, liveModels, liveSamplers, ctx_model,
                   whisperVars, op, ret>>

\* g_context = nullptr;
nativeFree_context_null(t) ==
    /\ pc[t] = "free_context_null"
    /\ g_context' = NULL
    /\ ctx_model' = NULL
    /\ ctx_poisoned' = FALSE
    /\ Goto(t, "free_model")
    /\ UNCHANGED <<callVars, sampler_chain, runtimeVars,
                   g_model, g_sampler, g_model_mutex, g_backend_initialized,
                   liveModels, liveContexts, liveSamplers, whisperVars, op, ret>>

\* if (g_model != nullptr) llama_model_free(g_model);
nativeFree_model(t) ==
    /\ pc[t] = "free_model"
    /\ IF g_model # NULL
         THEN /\ liveModels' = liveModels \ {g_model}
              /\ Goto(t, "free_model_null")
         ELSE /\ UNCHANGED liveModels
              /\ Goto(t, "free_return")
    /\ UNCHANGED <<callVars, engineVars,
                   g_model, g_context, g_sampler, g_model_mutex,
                   g_backend_initialized, liveContexts, liveSamplers, ctx_model,
                   whisperVars, op, ret>>

\* g_model = nullptr;
nativeFree_model_null(t) ==
    /\ pc[t] = "free_model_null"
    /\ g_model' = NULL
    /\ model_owner' = "none"
    /\ Goto(t, "free_return")
    /\ UNCHANGED <<callVars, sampler_chain, ctx_poisoned, model_params,
                   ctx_params, whisper_pass,
                   g_context, g_sampler, g_model_mutex, g_backend_initialized,
                   liveModels, liveContexts, liveSamplers, ctx_model,
                   whisperVars, op, ret>>

\* end of scope: the lock_guard releases g_model_mutex and the call returns
nativeFree_return(t) ==
    /\ pc[t] = "free_return"
    /\ g_model_mutex' = NoThread
    /\ Return(t, RET_OK)
    /\ UNCHANGED <<callVars, engineVars,
                   g_model, g_context, g_sampler, g_backend_initialized,
                   liveModels, liveContexts, liveSamplers, ctx_model,
                   whisperVars, op>>

nativeFree(t) ==
    \/ nativeFree_lock(t)
    \/ nativeFree_sampler(t)
    \/ nativeFree_sampler_null(t)
    \/ nativeFree_context(t)
    \/ nativeFree_context_null(t)
    \/ nativeFree_model(t)
    \/ nativeFree_model_null(t)
    \/ nativeFree_return(t)

\* if (g_model == nullptr) return -1;   (no lock is taken)
nativeTokenize_check(t) ==
    /\ pc[t] = "tok_check"
    /\ IF g_model = NULL
         THEN Return(t, RET_ERROR)
         ELSE Goto(t, "tok_use") /\ UNCHANGED ret
    /\ UNCHANGED <<callVars, engineVars, llmVars, whisperVars, op>>

\* mutant of llama_tokenize: the tokens that do not fit are dropped
llama_tokenize_truncating(n_needed, max_tokens) ==
    IF n_needed <= max_tokens THEN n_needed ELSE max_tokens

\* llama_tokenize: the number of tokens when they fit in max_tokens,
\* otherwise the negated number of tokens needed
llama_tokenize(n_needed, max_tokens) ==
    IF n_needed <= max_tokens THEN n_needed ELSE -n_needed

\* the token a character of the text maps to
TokenOf(c) == CHOOSE k \in TextTokens : \A j \in TextTokens : k <= j

\* the tokens of a text under add_special = true, parse_special = false:
\* the beginning-of-sequence marker when the vocabulary asks for one, then
\* one token per character
Tokenization(text, add_bos) ==
    (IF add_bos THEN <<VocabBos>> ELSE <<>>) \o
        [i \in 1..Len(text) |-> TokenOf(text[i])]

Min(a, b) == IF a <= b THEN a ELSE b

\* max_tokens = GetArrayLength(tokensOut);
\* n_tokens = llama_tokenize(llama_model_get_vocab(g_model), input, ...,
\*                          max_tokens, true, false);
\* if (n_tokens < 0) return n_tokens;
\* for (i = 0; i < n_tokens && i < max_tokens; i++) out[i] = tokens[i];
\* return n_tokens;
nativeTokenize_use(t) ==
    /\ pc[t] = "tok_use"
    /\ LET tokens == Tokenization(arg[t].text, arg[t].add_bos)
           max_tokens == arg[t].capacity
           n_tokens == llama_tokenize(Len(tokens), max_tokens)
       IN  IF n_tokens < 0
             THEN /\ Return(t, n_tokens)
                  /\ UNCHANGED tokensOut
             ELSE /\ tokensOut' = [tokensOut EXCEPT ![t] =
                        SubSeq(tokens, 1, Min(n_tokens, max_tokens))]
                  /\ Return(t, n_tokens)
    /\ UNCHANGED <<arg, ret_str, engineVars, llmVars, whisperVars, op>>

nativeTokenize(t) ==
    \/ nativeTokenize_check(t)
    \/ nativeTokenize_use(t)

\* if (g_model == nullptr) return "";   (no lock is taken)
nativeDecode_check(t) ==
    /\ pc[t] = "dec_check"
    /\ IF g_model = NULL
         THEN Return(t, 0)
         ELSE Goto(t, "dec_use") /\ UNCHANGED ret
    /\ UNCHANGED <<callVars, engineVars, llmVars, whisperVars, op>>

\* llama_token_to_piece with special = false: the number of bytes of the
\* token's text; negative when the token cannot be converted, zero for the
\* markers, which render as nothing
llama_token_to_piece(token) ==
    IF token \notin Tokens THEN -1
    ELSE IF token \in TextTokens THEN 1
    ELSE 0

\* mutant of nativeDecode_use: the engine's result is returned as it is
nativeDecode_use_raw(t) ==
    /\ pc[t] = "dec_use"
    /\ Return(t, llama_token_to_piece(arg[t].token))
    /\ UNCHANGED <<callVars, engineVars, llmVars, whisperVars, op>>

\* n = llama_token_to_piece(llama_model_get_vocab(g_model), token, ...);
\* if (n < 0) return ""; ... return NewStringUTF(buf);
\* the returned value is the length of the returned string
nativeDecode_use(t) ==
    /\ pc[t] = "dec_use"
    /\ LET n == llama_token_to_piece(arg[t].token)
       IN  Return(t, IF n < 0 THEN 0 ELSE n)
    /\ UNCHANGED <<callVars, engineVars, llmVars, whisperVars, op>>

nativeDecode(t) ==
    \/ nativeDecode_check(t)
    \/ nativeDecode_use(t)

\* mutant of nativeIsEOS_check: without a model every token is the end marker
nativeIsEOS_check_true(t) ==
    /\ pc[t] = "eos_check"
    /\ IF g_model = NULL
         THEN Return(t, JNI_TRUE)
         ELSE Goto(t, "eos_use") /\ UNCHANGED ret
    /\ UNCHANGED <<callVars, engineVars, llmVars, whisperVars, op>>

\* if (g_model == nullptr) return JNI_FALSE;   (no lock is taken)
nativeIsEOS_check(t) ==
    /\ pc[t] = "eos_check"
    /\ IF g_model = NULL
         THEN Return(t, JNI_FALSE)
         ELSE Goto(t, "eos_use") /\ UNCHANGED ret
    /\ UNCHANGED <<callVars, engineVars, llmVars, whisperVars, op>>

\* is_eos = (token == llama_vocab_eos(llama_model_get_vocab(g_model)));
nativeIsEOS_use(t) ==
    /\ pc[t] = "eos_use"
    /\ Return(t, IF arg[t].token = VocabEos THEN JNI_TRUE ELSE JNI_FALSE)
    /\ UNCHANGED <<callVars, engineVars, llmVars, whisperVars, op>>

nativeIsEOS(t) ==
    \/ nativeIsEOS_check(t)
    \/ nativeIsEOS_use(t)

\* if (g_model == nullptr) return 0;   (no lock is taken)
nativeGetVocabSize_check(t) ==
    /\ pc[t] = "vocab_check"
    /\ IF g_model = NULL
         THEN Return(t, 0)
         ELSE Goto(t, "vocab_use") /\ UNCHANGED ret
    /\ UNCHANGED <<callVars, engineVars, llmVars, whisperVars, op>>

\* return llama_vocab_n_tokens(llama_model_get_vocab(g_model));
nativeGetVocabSize_use(t) ==
    /\ pc[t] = "vocab_use"
    /\ Return(t, MaxToken + 1)
    /\ UNCHANGED <<callVars, engineVars, llmVars, whisperVars, op>>

nativeGetVocabSize(t) ==
    \/ nativeGetVocabSize_check(t)
    \/ nativeGetVocabSize_use(t)

\* -------------------------------------------------------- whisper bridge
\* std::lock_guard on g_whisper_mutex
nativeLoadWhisperModel_lock(t) ==
    /\ pc[t] = "wload_lock"
    /\ g_whisper_mutex = NoThread
    /\ g_whisper_mutex' = t
    /\ Goto(t, "wload_free")
    /\ UNCHANGED <<callVars, engineVars,
                   llmVars, g_whisper_ctx, g_detected_language,
                   g_whisper_initialized, liveWhisper, op, ret>>

\* mutant of nativeLoadWhisperModel_free: the loaded model is kept while the
\* new file is opened
nativeLoadWhisperModel_free_keep(t) ==
    /\ pc[t] = "wload_free"
    /\ Goto(t, "wload_file")
    /\ UNCHANGED <<callVars, engineVars,
                   llmVars, g_whisper_ctx, g_whisper_mutex, g_detected_language,
                   g_whisper_initialized, liveWhisper, op, ret>>

\* if (g_whisper_ctx != nullptr) whisper_free(g_whisper_ctx);
nativeLoadWhisperModel_free(t) ==
    /\ pc[t] = "wload_free"
    /\ IF g_whisper_ctx # NULL
         THEN /\ liveWhisper' = liveWhisper \ {g_whisper_ctx}
              /\ Goto(t, "wload_null")
         ELSE /\ UNCHANGED liveWhisper
              /\ Goto(t, "wload_file")
    /\ UNCHANGED <<callVars, engineVars,
                   llmVars, g_whisper_ctx, g_whisper_mutex, g_detected_language,
                   g_whisper_initialized, op, ret>>

\* g_whisper_ctx = nullptr;
nativeLoadWhisperModel_null(t) ==
    /\ pc[t] = "wload_null"
    /\ g_whisper_ctx' = NULL
    /\ Goto(t, "wload_file")
    /\ UNCHANGED <<callVars, engineVars,
                   llmVars, g_whisper_mutex, g_detected_language,
                   g_whisper_initialized, liveWhisper, op, ret>>

\* g_whisper_ctx = whisper_init_from_file_with_params(path, cparams);
\* on success the language preference is stored
nativeLoadWhisperModel_file(t) ==
    /\ pc[t] = "wload_file"
    /\ \/ /\ g_whisper_ctx' = NULL
          /\ UNCHANGED <<liveWhisper, g_detected_language, g_whisper_initialized>>
          /\ Return(t, JNI_FALSE)
       \/ /\ FreeAddrs(liveWhisper, {g_whisper_ctx}) # {}
          /\ g_whisper_ctx' = NewAddr(liveWhisper, {g_whisper_ctx})
          /\ liveWhisper' = liveWhisper \cup {g_whisper_ctx'}
          /\ \E lang \in Languages : g_detected_language' = lang
          /\ g_whisper_initialized' = TRUE
          /\ Return(t, JNI_TRUE)
    /\ g_whisper_mutex' = NoThread
    /\ UNCHANGED <<callVars, engineVars, llmVars, op>>

nativeLoadWhisperModel(t) ==
    \/ nativeLoadWhisperModel_lock(t)
    \/ nativeLoadWhisperModel_free(t)
    \/ nativeLoadWhisperModel_null(t)
    \/ nativeLoadWhisperModel_file(t)

\* std::lock_guard on g_whisper_mutex
nativeReleaseWhisperModel_lock(t) ==
    /\ pc[t] = "wrel_lock"
    /\ g_whisper_mutex = NoThread
    /\ g_whisper_mutex' = t
    /\ Goto(t, "wrel_free")
    /\ UNCHANGED <<callVars, engineVars,
                   llmVars, g_whisper_ctx, g_detected_language,
                   g_whisper_initialized, liveWhisper, op, ret>>

\* if (g_whisper_ctx != nullptr) whisper_free(g_whisper_ctx);
nativeReleaseWhisperModel_free(t) ==
    /\ pc[t] = "wrel_free"
    /\ IF g_whisper_ctx # NULL
         THEN /\ liveWhisper' = liveWhisper \ {g_whisper_ctx}
              /\ Goto(t, "wrel_null")
         ELSE /\ UNCHANGED liveWhisper
              /\ Goto(t, "wrel_return")
    /\ UNCHANGED <<callVars, engineVars,
                   llmVars, g_whisper_ctx, g_whisper_mutex, g_detected_language,
                   g_whisper_initialized, op, ret>>

\* mutant of nativeReleaseWhisperModel_null: the slot keeps the released pointer
nativeReleaseWhisperModel_null_keep(t) ==
    /\ pc[t] = "wrel_null"
    /\ Goto(t, "wrel_return")
    /\ UNCHANGED <<callVars, engineVars, llmVars, whisperVars, op, ret>>

\* g_whisper_ctx = nullptr;
nativeReleaseWhisperModel_null(t) ==
    /\ pc[t] = "wrel_null"
    /\ g_whisper_ctx' = NULL
    /\ Goto(t, "wrel_return")
    /\ UNCHANGED <<callVars, engineVars,
                   llmVars, g_whisper_mutex, g_detected_language,
                   g_whisper_initialized, liveWhisper, op, ret>>

\* g_whisper_initialized = false; the lock_guard releases g_whisper_mutex
nativeReleaseWhisperModel_return(t) ==
    /\ pc[t] = "wrel_return"
    /\ g_whisper_initialized' = FALSE
    /\ g_whisper_mutex' = NoThread
    /\ Return(t, RET_OK)
    /\ UNCHANGED <<callVars, engineVars,
                   llmVars, g_whisper_ctx, g_detected_language, liveWhisper, op>>

nativeReleaseWhisperModel(t) ==
    \/ nativeReleaseWhisperModel_lock(t)
    \/ nativeReleaseWhisperModel_free(t)
    \/ nativeReleaseWhisperModel_null(t)
    \/ nativeReleaseWhisperModel_return(t)

\* ------------------------------------------- whisper bridge: inference
\* whisper_full returns 0 when the pass succeeds
WhisperResults == {0, -1}

\* get_default_params() with the fields the entry points override
whisper_full_params(language, detect_language, single_segment) ==
    [language |-> language, detect_language |-> detect_language,
     single_segment |-> single_segment]

\* a whisper_full pass run with params: its return value, and the state it
\* leaves in the context, read by whisper_full_n_segments and
\* whisper_lang_str(whisper_full_lang_id)
whisper_full(params, result, n_segments, lang) ==
    [params |-> params, result |-> result, n_segments |-> n_segments,
     lang |-> lang]

\* mutant of nativeTranscribe_lock: one lock serves both bridges
nativeTranscribe_lock_shared(t) ==
    /\ pc[t] = "wtr_lock"
    /\ g_whisper_mutex = NoThread
    /\ g_model_mutex = NoThread
    /\ IF g_whisper_ctx = NULL
         THEN /\ Return(t, 0)
              /\ UNCHANGED g_whisper_mutex
         ELSE /\ g_whisper_mutex' = t
              /\ Goto(t, "wtr_full")
              /\ UNCHANGED ret
    /\ UNCHANGED <<callVars, engineVars, llmVars, g_whisper_ctx,
                   g_detected_language, g_whisper_initialized, liveWhisper, op>>

\* std::lock_guard on g_whisper_mutex, then the g_whisper_ctx == nullptr
\* check: return "" when no model is loaded
nativeTranscribe_lock(t) ==
    /\ pc[t] = "wtr_lock"
    /\ g_whisper_mutex = NoThread
    /\ IF g_whisper_ctx = NULL
         THEN /\ Return(t, 0)
              /\ UNCHANGED g_whisper_mutex
         ELSE /\ g_whisper_mutex' = t
              /\ Goto(t, "wtr_full")
              /\ UNCHANGED ret
    /\ UNCHANGED <<callVars, engineVars, llmVars, g_whisper_ctx,
                   g_detected_language, g_whisper_initialized, liveWhisper, op>>

\* mutant of nativeTranscribe_full: the segments of a failed pass are returned
nativeTranscribe_full_partial(t) ==
    /\ pc[t] = "wtr_full"
    /\ \E result \in WhisperResults, n_segments \in 0..MaxSegments :
          /\ whisper_pass' =
                whisper_full(whisper_full_params(g_detected_language, FALSE, FALSE),
                             result, n_segments, g_detected_language)
          /\ Return(t, n_segments)
    /\ g_whisper_mutex' = NoThread
    /\ UNCHANGED <<callVars, llamaEngineVars, llmVars, g_whisper_ctx,
                   g_detected_language, g_whisper_initialized, liveWhisper, op>>

\* params.language = g_detected_language.c_str(); params.detect_language = false;
\* result = whisper_full(g_whisper_ctx, params, audio, audio_length);
\* if (result != 0) return ""; otherwise the texts of the n_segments segments
\* are concatenated and returned.  The returned value of the model is the
\* number of segments whose text is in the returned string.
nativeTranscribe_full(t) ==
    /\ pc[t] = "wtr_full"
    /\ \E result \in WhisperResults, n_segments \in 0..MaxSegments :
          /\ whisper_pass' =
                whisper_full(whisper_full_params(g_detected_language, FALSE, FALSE),
                             result, n_segments, g_detected_language)
          /\ IF result # 0 THEN Return(t, 0) ELSE Return(t, n_segments)
    /\ g_whisper_mutex' = NoThread
    /\ UNCHANGED <<callVars, llamaEngineVars, llmVars, g_whisper_ctx,
                   g_detected_language, g_whisper_initialized, liveWhisper, op>>

nativeTranscribe(t) ==
    \/ nativeTranscribe_lock(t)
    \/ nativeTranscribe_full(t)

\* std::lock_guard on g_whisper_mutex, then the g_whisper_ctx == nullptr
\* check: return "" when no model is loaded
nativeTranscribeStreaming_lock(t) ==
    /\ pc[t] = "wst_lock"
    /\ g_whisper_mutex = NoThread
    /\ IF g_whisper_ctx = NULL
         THEN /\ Return(t, 0)
              /\ UNCHANGED g_whisper_mutex
         ELSE /\ g_whisper_mutex' = t
              /\ Goto(t, "wst_full")
              /\ UNCHANGED ret
    /\ UNCHANGED <<callVars, engineVars, llmVars, g_whisper_ctx,
                   g_detected_language, g_whisper_initialized, liveWhisper, op>>

\* mutant of nativeTranscribeStreaming_full: the pass resets the language
nativeTranscribeStreaming_full_reset(t) ==
    /\ pc[t] = "wst_full"
    /\ \E result \in WhisperResults, n_segments \in 0..MaxSegments :
          /\ whisper_pass' =
                whisper_full(whisper_full_params(g_detected_language, FALSE, TRUE),
                             result, n_segments, g_detected_language)
          /\ IF result # 0 \/ n_segments = 0
               THEN Return(t, 0) ELSE Return(t, 1)
    /\ g_whisper_mutex' = NoThread
    /\ g_detected_language' = "en"
    /\ UNCHANGED <<callVars, llamaEngineVars, llmVars, g_whisper_ctx,
                   g_whisper_initialized, liveWhisper, op>>

\* params.language = g_detected_language.c_str(); params.single_segment = true;
\* result = whisper_full(...); if (result != 0) return "";
\* if (n_segments == 0) return ""; return the text of segment 0
nativeTranscribeStreaming_full(t) ==
    /\ pc[t] = "wst_full"
    /\ \E result \in WhisperResults, n_segments \in 0..MaxSegments :
          /\ whisper_pass' =
                whisper_full(whisper_full_params(g_detected_language, FALSE, TRUE),
                             result, n_segments, g_detected_language)
          /\ IF result # 0 \/ n_segments = 0
               THEN Return(t, 0) ELSE Return(t, 1)
    /\ g_whisper_mutex' = NoThread
    /\ UNCHANGED <<callVars, llamaEngineVars, llmVars, g_whisper_ctx,
                   g_detected_language, g_whisper_initialized, liveWhisper, op>>

nativeTranscribeStreaming(t) ==
    \/ nativeTranscribeStreaming_lock(t)
    \/ nativeTranscribeStreaming_full(t)

\* a string is handed back to the caller
ReturnString(t, str) ==
    /\ Return(t, RET_OK)
    /\ ret_str' = [ret_str EXCEPT ![t] = str]

\* std::lock_guard on g_whisper_mutex, then the g_whisper_ctx == nullptr
\* check: return "en" when no model is loaded
nativeDetectLanguage_lock(t) ==
    /\ pc[t] = "wdl_lock"
    /\ g_whisper_mutex = NoThread
    /\ IF g_whisper_ctx = NULL
         THEN /\ ReturnString(t, "en")
              /\ UNCHANGED g_whisper_mutex
         ELSE /\ g_whisper_mutex' = t
              /\ Goto(t, "wdl_full")
              /\ UNCHANGED <<ret, ret_str>>
    /\ UNCHANGED <<arg, tokensOut, engineVars, llmVars, g_whisper_ctx,
                   g_detected_language, g_whisper_initialized, liveWhisper, op>>

\* mutant of nativeDetectLanguage_full: the detected tag is returned but not
\* stored
nativeDetectLanguage_full_forget(t) ==
    /\ pc[t] = "wdl_full"
    /\ \E result \in WhisperResults, n_segments \in 0..MaxSegments,
          lang \in Languages :
          /\ whisper_pass' =
                whisper_full(whisper_full_params("auto", TRUE, FALSE),
                             result, n_segments, lang)
          /\ IF result = 0 /\ n_segments > 0
               THEN ReturnString(t, lang)
               ELSE ReturnString(t, "en")
    /\ g_whisper_mutex' = NoThread
    /\ UNCHANGED <<arg, tokensOut, llamaEngineVars, llmVars, g_whisper_ctx,
                   g_detected_language, g_whisper_initialized, liveWhisper, op>>

\* mutant of nativeDetectLanguage_full: a failed pass resets the language
nativeDetectLanguage_full_reset(t) ==
    /\ pc[t] = "wdl_full"
    /\ \E result \in WhisperResults, n_segments \in 0..MaxSegments,
          lang \in Languages :
          /\ whisper_pass' =
                whisper_full(whisper_full_params("auto", TRUE, FALSE),
                             result, n_segments, lang)
          /\ IF result = 0 /\ n_segments > 0
               THEN /\ g_detected_language' = lang
                    /\ ReturnString(t, lang)
               ELSE /\ g_detected_language' = "en"
                    /\ ReturnString(t, "en")
    /\ g_whisper_mutex' = NoThread
    /\ UNCHANGED <<arg, tokensOut, llamaEngineVars, llmVars, g_whisper_ctx,
                   g_whisper_initialized, liveWhisper, op>>

\* params.language = "auto"; params.detect_language = true;
\* result = whisper_full(...); if (result != 0) return "en";
\* if (n_segments > 0) { lang = whisper_lang_str(whisper_full_lang_id(ctx));
\*                       g_detected_language = lang; return lang; }
\* return "en";
nativeDetectLanguage_full(t) ==
    /\ pc[t] = "wdl_full"
    /\ \E result \in WhisperResults, n_segments \in 0..MaxSegments,
          lang \in Languages :
          /\ whisper_pass' =
                whisper_full(whisper_full_params("auto", TRUE, FALSE),
                             result, n_segments, lang)
          /\ IF result = 0 /\ n_segments > 0
               THEN /\ g_detected_language' = lang
                    /\ ReturnString(t, lang)
               ELSE /\ UNCHANGED g_detected_language
                    /\ ReturnString(t, "en")
    /\ g_whisper_mutex' = NoThread
    /\ UNCHANGED <<arg, tokensOut, llamaEngineVars, llmVars, g_whisper_ctx,
                   g_whisper_initialized, liveWhisper, op>>

nativeDetectLanguage(t) ==
    \/ nativeDetectLanguage_lock(t)
    \/ nativeDetectLanguage_full(t)

\* if (g_whisper_ctx == nullptr) return "en";   (no lock is taken)
nativeGetLanguage_check(t) ==
    /\ pc[t] = "wgl_check"
    /\ IF g_whisper_ctx = NULL
         THEN ReturnString(t, "en")
         ELSE Goto(t, "wgl_read") /\ UNCHANGED <<ret, ret_str>>
    /\ UNCHANGED <<arg, tokensOut, engineVars, llmVars, whisperVars, op>>

\* return g_detected_language;
nativeGetLanguage_read(t) ==
    /\ pc[t] = "wgl_read"
    /\ ReturnString(t, g_detected_language)
    /\ UNCHANGED <<arg, tokensOut, engineVars, llmVars, whisperVars, op>>

nativeGetLanguage(t) ==
    \/ nativeGetLanguage_check(t)
    \/ nativeGetLanguage_read(t)

\* ------------------------------------------------ accelerator detection
\* A property or file content is a sequence of pieces; the empty sequence is
\* the empty string, which is also what an unset property reads as.
\* std::string::find(piece) != npos
find(str, piece) == \E i \in 1..Len(str) : str[i] = piece

\* values of ro.build.version.sdk, as decimal digits
SdkVersions == {<<>>, <<2, 6>>, <<3, 4>>}
\* values of ro.hardware
Hardwares == {<<>>, <<"qcom">>, <<"exynos", "2400">>}
\* values of ro.board.platform
Socs == {<<>>, <<"kalama">>, <<"universal">>}
\* how gpu_backend.cpp was compiled: with ENABLE_OPENCL, without it for
\* __aarch64__, without it for another architecture
Builds == {"ENABLE_OPENCL", "__aarch64__", "other"}
CL_SUCCESS == "CL_SUCCESS"
\* outcomes of clGetPlatformIDs: return code and number of platforms
ClResults == {[ret |-> CL_SUCCESS, num_platforms |-> 0],
              [ret |-> CL_SUCCESS, num_platforms |-> 1],
              [ret |-> "error", num_platforms |-> 0]}

\* std::stoi of a string of decimal digits
RECURSIVE stoi(_)
stoi(digits) ==
    IF Len(digits) = 0 THEN 0
    ELSE 10 * stoi(SubSeq(digits, 1, Len(digits) - 1)) + digits[Len(digits)]

checkNNAPISupport(sdkVersion, hardware, soc) ==
    LET sdk == stoi(IF sdkVersion = <<>> THEN <<0>> ELSE sdkVersion)
        hasNPU ==
            \/ find(soc, "pineapple") \/ find(soc, "kalama")
            \/ find(soc, "taro") \/ find(soc, "qcom")
            \/ find(hardware, "exynos") \/ find(soc, "exynos")
            \/ find(soc, "mt68") \/ find(soc, "mt69")
            \/ find(hardware, "tensor") \/ find(soc, "tensor")
    IN  IF sdk < 27 THEN FALSE ELSE hasNPU

\* a thread calls an entry point that runs to its return in one step, with
\* inputs a and return value r
Call(t, o, a, r) ==
    /\ pc[t] = "idle"
    /\ op' = [op EXCEPT ![t] = o]
    /\ arg' = [arg EXCEPT ![t] = a]
    /\ ret' = [ret EXCEPT ![t] = r]
    /\ tokensOut' = [tokensOut EXCEPT ![t] = <<>>]
    /\ ret_str' = [ret_str EXCEPT ![t] = ""]
    /\ UNCHANGED <<pc, llmVars, whisperVars, engineVars>>

Bool(b) == IF b THEN JNI_TRUE ELSE JNI_FALSE

\* g_npuAvailable = checkNNAPISupport(); the system properties the check
\* reads are the inputs
nativeDetectNPU(t) ==
    \E sdkVersion \in SdkVersions, hardware \in Hardwares, soc \in Socs :
       /\ g_npuAvailable' = checkNNAPISupport(sdkVersion, hardware, soc)
       /\ Call(t, "nativeDetectNPU",
               [sdkVersion |-> sdkVersion, hardware |-> hardware, soc |-> soc],
               Bool(g_npuAvailable'))
       /\ UNCHANGED <<g_npuInitialized, nnapi_delegate, gpu_available, clVars>>

nativeInitializeNPU(t) ==
    /\ IF ~g_npuAvailable
         THEN /\ Call(t, "nativeInitializeNPU", NoArg, JNI_FALSE)
              /\ UNCHANGED g_npuInitialized
         ELSE /\ g_npuInitialized' = TRUE
              /\ Call(t, "nativeInitializeNPU", NoArg, JNI_TRUE)
    /\ UNCHANGED <<g_npuAvailable, nnapi_delegate, gpu_available, clVars>>

nativeLoadModelToNPU(t) ==
    /\ Call(t, "nativeLoadModelToNPU", NoArg, Bool(g_npuAvailable))
    /\ UNCHANGED accelVars

nativeReleaseNPU(t) ==
    /\ g_npuInitialized' = FALSE
    /\ Call(t, "nativeReleaseNPU", NoArg, RET_OK)
    /\ UNCHANGED <<g_npuAvailable, nnapi_delegate, gpu_available, clVars>>

\* useNPUPrefill is ignored
nativeLoadMistralINT8(t) ==
    \E useNPUPrefill \in BOOLEAN :
       /\ Call(t, "nativeLoadMistralINT8", [useNPUPrefill |-> useNPUPrefill],
               JNI_TRUE)
       /\ UNCHANGED accelVars

\* "NNAPI delegate: enabled" when useNPU && g_npuAvailable, otherwise
\* "disabled (CPU fallback)"; returns JNI_TRUE
nativeLoadMobileNetV3(t) ==
    \E useNPU \in BOOLEAN :
       /\ nnapi_delegate' = IF useNPU /\ g_npuAvailable
                               THEN "enabled"
                               ELSE "disabled (CPU fallback)"
       /\ Call(t, "nativeLoadMobileNetV3", [useNPU |-> useNPU], JNI_TRUE)
       /\ UNCHANGED <<g_npuAvailable, g_npuInitialized, gpu_available, clVars>>

\* with ENABLE_OPENCL the answer is that of clGetPlatformIDs; without it the
\* answer is fixed by the architecture, and ro.hardware is read only to be
\* logged
nativeIsGPUAvailable(t) ==
    \E build \in Builds, cl \in ClResults, hardware \in Hardwares :
       LET available ==
              CASE build = "ENABLE_OPENCL" ->
                      cl.ret = CL_SUCCESS /\ cl.num_platforms > 0
                [] build = "__aarch64__" -> TRUE
                [] OTHER -> FALSE
       IN  /\ gpu_available' = available
           /\ Call(t, "nativeIsGPUAvailable",
                   [build |-> build, cl |-> cl, hardware |-> hardware],
                   Bool(available))
           /\ UNCHANGED <<g_npuAvailable, g_npuInitialized, nnapi_delegate,
                          clVars>>

\* ------------------------------------------------ OpenCL (ENABLE_OPENCL)
npuVars == <<g_npuAvailable, g_npuInitialized, nnapi_delegate, gpu_available>>

\* where nativeInitOpenCL stops: at clGetPlatformIDs, at clGetDeviceIDs, at
\* clCreateContext, at clCreateCommandQueue, or not at all
ClInitOutcomes == {"clGetPlatformIDs", "clGetDeviceIDs", "clCreateContext", "clCreateCommandQueue", "CL_SUCCESS"}

\* if (g_opencl_initialized) return 0; otherwise platform, device, context
\* and command queue are obtained in this order, each failure returning its
\* own code and keeping what was stored before it.  A failed clCreateContext
\* and a failed clCreateCommandQueue return a null handle.  After a failed
\* clCreateCommandQueue the context is released and g_cl_context keeps its
\* handle.
nativeInitOpenCL(t) ==
    IF g_opencl_initialized
      THEN /\ Call(t, "nativeInitOpenCL", NoArg, 0)
           /\ UNCHANGED accelVars
      ELSE \E outcome \in ClInitOutcomes, platform \in Handles, device \in Handles :
           /\ CASE outcome = "clGetPlatformIDs" ->
                     /\ Call(t, "nativeInitOpenCL", NoArg, -1)
                     /\ UNCHANGED clVars
                [] outcome = "clGetDeviceIDs" ->
                     /\ g_cl_platform' = platform
                     /\ Call(t, "nativeInitOpenCL", NoArg, -2)
                     /\ UNCHANGED <<g_cl_device, g_cl_context, g_cl_queue,
                                    g_opencl_initialized, liveClContexts,
                                    liveClQueues, releasedTwice>>
                [] outcome = "clCreateContext" ->
                     /\ g_cl_platform' = platform
                     /\ g_cl_device' = device
                     /\ g_cl_context' = NULL
                     /\ Call(t, "nativeInitOpenCL", NoArg, -3)
                     /\ UNCHANGED <<g_cl_queue, g_opencl_initialized,
                                    liveClContexts, liveClQueues, releasedTwice>>
                [] outcome = "clCreateCommandQueue" ->
                     /\ FreeAddrs(liveClContexts, {g_cl_context}) # {}
                     /\ g_cl_platform' = platform
                     /\ g_cl_device' = device
                     /\ g_cl_context' = NewAddr(liveClContexts, {g_cl_context})
                     /\ g_cl_queue' = NULL
                     /\ Call(t, "nativeInitOpenCL", NoArg, -4)
                     /\ UNCHANGED <<g_opencl_initialized, liveClContexts,
                                    liveClQueues, releasedTwice>>
                [] OTHER ->
                     /\ FreeAddrs(liveClContexts, {g_cl_context}) # {}
                     /\ FreeAddrs(liveClQueues, {g_cl_queue}) # {}
                     /\ g_cl_platform' = platform
                     /\ g_cl_device' = device
                     /\ g_cl_context' = NewAddr(liveClContexts, {g_cl_context})
                     /\ liveClContexts' = liveClContexts \cup {g_cl_context'}
                     /\ g_cl_queue' = NewAddr(liveClQueues, {g_cl_queue})
                     /\ liveClQueues' = liveClQueues \cup {g_cl_queue'}
                     /\ g_opencl_initialized' = TRUE
                     /\ Call(t, "nativeInitOpenCL", NoArg, 0)
                     /\ UNCHANGED releasedTwice
           /\ UNCHANGED npuVars

\* if (g_cl_queue) release it; if (g_cl_context) release it; the four slots
\* and the flag are cleared.  clReleaseContext on a handle that was released
\* before is undefined: the call either goes on or the process is aborted.
nativeCleanupOpenCL(t) ==
    /\ pc[t] = "idle"
    /\ liveClQueues' = liveClQueues \ {g_cl_queue}
    /\ g_cl_queue' = NULL
    /\ liveClContexts' = liveClContexts \ {g_cl_context}
    /\ IF g_cl_context # NULL /\ g_cl_context \notin liveClContexts
         THEN /\ releasedTwice' = releasedTwice \cup {g_cl_context}
              /\ \E aborted \in BOOLEAN :
                    IF aborted
                      THEN /\ pc' = [pc EXCEPT ![t] = "aborted"]
                           /\ UNCHANGED <<g_cl_platform, g_cl_device,
                                          g_cl_context, g_opencl_initialized>>
                      ELSE /\ g_cl_context' = NULL
                           /\ g_cl_platform' = NULL
                           /\ g_cl_device' = NULL
                           /\ g_opencl_initialized' = FALSE
                           /\ UNCHANGED pc
         ELSE /\ g_cl_context' = NULL
              /\ g_cl_platform' = NULL
              /\ g_cl_device' = NULL
              /\ g_opencl_initialized' = FALSE
              /\ UNCHANGED <<pc, releasedTwice>>
    /\ op' = [op EXCEPT ![t] = "nativeCleanupOpenCL"]
    /\ arg' = [arg EXCEPT ![t] = NoArg]
    /\ ret' = [ret EXCEPT ![t] = RET_OK]
    /\ tokensOut' = [tokensOut EXCEPT ![t] = <<>>]
    /\ ret_str' = [ret_str EXCEPT ![t] = ""]
    /\ UNCHANGED <<npuVars, llmVars, whisperVars, engineVars>>

\* where nativeSupportsOpenCL stops
ClProbeOutcomes == {"clGetPlatformIDs", "clGetDeviceIDs", "CL_SUCCESS"}

\* clGetPlatformIDs and clGetDeviceIDs into locals: JNI_TRUE when both succeed
nativeSupportsOpenCL(t) ==
    \E outcome \in ClProbeOutcomes :
       /\ Call(t, "nativeSupportsOpenCL", [outcome |-> outcome],
               Bool(outcome = "CL_SUCCESS"))
       /\ UNCHANGED accelVars

\* ------------------------------------------------------- specifications
\* a thread calls an entry point of the llama.cpp bridge, its inputs drawn
\* from the given sets.  add_bos is whether the loaded vocabulary asks for a
\* beginning-of-sequence marker.
CallLLMWith(t, texts, capacities, add_boses, temperatures, topPs, tokens, gpuLayerses, contextSizes, coreses) ==
    \/ \E gpuLayers \in gpuLayerses :
          EnterWith(t, "nativeLoadModel", "load_lock",
                    [gpuLayers |-> gpuLayers])
    \/ \E contextSize \in contextSizes, cores \in coreses :
          EnterWith(t, "nativeInitContext", "init_lock",
                    [contextSize |-> contextSize, cores |-> cores])
    \/ \E text \in texts, capacity \in capacities, add_bos \in add_boses :
          EnterWith(t, "nativeTokenize", "tok_check",
                    [text |-> text, capacity |-> capacity, add_bos |-> add_bos])
    \/ \E temperature \in temperatures, topP \in topPs :
          EnterWith(t, "nativeGenerate", "gen_check",
                    [temperature |-> temperature, topP |-> topP])
    \/ \E token \in tokens :
          EnterWith(t, "nativeDecode", "dec_check", [token |-> token])
    \/ \E token \in tokens :
          EnterWith(t, "nativeIsEOS", "eos_check", [token |-> token])
    \/ Enter(t, "nativeFree", "free_lock")
    \/ Enter(t, "nativeGetVocabSize", "vocab_check")

\* a call with any input
CallLLM(t) ==
    CallLLMWith(t, Texts, 0..MaxTextTokens, BOOLEAN, Temperatures, TopPs,
                Tokens \cup {InvalidToken}, GpuLayers, ContextSizes, {8})

\* a call with one fixed input per entry point
CallLLMConc(t) ==
    CallLLMWith(t, {<<>>}, {MaxTextTokens}, {TRUE}, {8}, {9}, {VocabEos}, {0},
                {CtxPad}, {8})

\* a call with one fixed input per entry point, on a host with any number of
\* cores
CallLLMCores(t) ==
    CallLLMWith(t, {<<>>}, {MaxTextTokens}, {TRUE}, {8}, {9}, {VocabEos}, {0}, {CtxPad}, Cores)

\* a thread calls an entry point of the vision workload in llm_bridge.cpp:
\* nativeLoadVisionModel calls nativeLoadModel with its own arguments and
\* nativeReleaseVisionModel calls nativeFree
CallVision(t) ==
    \/ \E gpu_layers \in GpuLayers :
          EnterWith(t, "nativeLoadVisionModel", "load_lock",
                    [gpuLayers |-> gpu_layers])
    \/ Enter(t, "nativeReleaseVisionModel", "free_lock")

\* a thread calls an entry point of the whisper.cpp bridge
CallWhisper(t) ==
    \/ Enter(t, "nativeLoadWhisperModel", "wload_lock")
    \/ Enter(t, "nativeReleaseWhisperModel", "wrel_lock")

\* a thread takes the next step of the entry point it is executing
RunLLM(t) ==
    \/ nativeLoadModel(t)
    \/ nativeInitContext(t)
    \/ nativeTokenize(t)
    \/ nativeGenerate(t)
    \/ nativeDecode(t)
    \/ nativeIsEOS(t)
    \/ nativeFree(t)
    \/ nativeGetVocabSize(t)

StepLLM(t) == CallLLM(t) \/ RunLLM(t)

StepWhisper(t) ==
    \/ CallWhisper(t)
    \/ nativeLoadWhisperModel(t)
    \/ nativeReleaseWhisperModel(t)

\* a thread calls an inference entry point of the whisper.cpp bridge
CallSpeech(t) ==
    \/ Enter(t, "nativeTranscribe", "wtr_lock")
    \/ Enter(t, "nativeTranscribeStreaming", "wst_lock")
    \/ Enter(t, "nativeDetectLanguage", "wdl_lock")
    \/ Enter(t, "nativeGetLanguage", "wgl_check")

\* a thread takes a step in the whisper.cpp bridge
StepSpeech(t) ==
    \/ StepWhisper(t)
    \/ CallSpeech(t)
    \/ nativeTranscribe(t)
    \/ nativeTranscribeStreaming(t)
    \/ nativeDetectLanguage(t)
    \/ nativeGetLanguage(t)

\* one caller: the entry points of both bridges run one after the other
Next == StepLLM(MainThread) \/ StepWhisper(MainThread)

Spec == Init /\ [][Next]_vars

\* several callers of the llama.cpp bridge, interleaved step by step.  What
\* this specification explores is the interleavings, so every call carries
\* one fixed input.
NextConc == \E t \in Threads : CallLLMConc(t) \/ RunLLM(t)

SpecConc == Init /\ [][NextConc]_vars

\* one caller of the language-model and of the vision entry points of
\* llm_bridge.cpp
NextVision ==
    \/ CallLLMCores(MainThread)
    \/ CallVision(MainThread)
    \/ RunLLM(MainThread)

SpecVision == Init /\ [][NextVision]_vars

\* one caller of the whisper.cpp bridge
NextSpeech == StepSpeech(MainThread)

SpecSpeech == Init /\ [][NextSpeech]_vars

\* a thread calls one of the entry points of the llama.cpp bridge that take
\* g_model_mutex
CallModel(t) ==
    \/ EnterWith(t, "nativeLoadModel", "load_lock", [gpuLayers |-> 0])
    \/ EnterWith(t, "nativeInitContext", "init_lock",
                 [contextSize |-> CtxPad, cores |-> 8])
    \/ Enter(t, "nativeFree", "free_lock")

\* a thread takes a step in one of these entry points
StepModel(t) ==
    \/ CallModel(t)
    \/ nativeLoadModel(t)
    \/ nativeInitContext(t)
    \/ nativeFree(t)

\* the thread that calls the whisper.cpp bridge while MainThread calls the
\* llama.cpp bridge
SpeechThread == "t2"

\* one caller of the locking entry points of the llama.cpp bridge and one
\* caller of the whisper.cpp bridge, interleaved step by step
NextCross == StepModel(MainThread) \/ StepSpeech(SpeechThread)

SpecCross == Init /\ [][NextCross]_vars

\* entry points that take g_model_mutex, directly or through the entry point
\* they call
ModelLockOps == {"nativeLoadModel", "nativeInitContext", "nativeFree"} \cup VisionOps
\* entry points that take g_whisper_mutex
WhisperLockOps == {"nativeLoadWhisperModel", "nativeReleaseWhisperModel", "nativeTranscribe", "nativeDetectLanguage"}

\* a thread calls one of the entry points of either bridge that take a
\* mutex, or one of the vision wrappers.  The bridges share no variable and
\* no mutex, so the callers of a run contend within one bridge: the first
\* call of the run decides which.
CallLocking(t) ==
    \/ /\ \A u \in Threads : op[u] \notin WhisperLockOps
       /\ CallModel(t) \/ CallVision(t)
    \/ /\ \A u \in Threads : op[u] \notin ModelLockOps
       /\ \/ CallWhisper(t)
          \/ Enter(t, "nativeTranscribe", "wtr_lock")
          \/ Enter(t, "nativeDetectLanguage", "wdl_lock")

\* a thread takes the next step of the entry point it is executing
RunLocking(t) ==
    \/ nativeLoadModel(t)
    \/ nativeInitContext(t)
    \/ nativeFree(t)
    \/ nativeLoadWhisperModel(t)
    \/ nativeReleaseWhisperModel(t)
    \/ nativeTranscribe(t)
    \/ nativeDetectLanguage(t)

\* several callers of the locking entry points, interleaved step by step
NextLocking == \E t \in Threads : CallLocking(t) \/ RunLocking(t)

\* A thread inside an entry point keeps being scheduled, the engine calls it
\* makes terminate, and a thread waiting for a mutex that is released again
\* and again eventually acquires it.
FairLocking == \A t \in Threads : SF_vars(RunLocking(t))

SpecLocking == Init /\ [][NextLocking]_vars /\ FairLocking

\* one caller of the accelerator entry points of npu_delegate.cpp and
\* gpu_backend.cpp
NextAccel ==
    \/ nativeDetectNPU(MainThread)
    \/ nativeInitializeNPU(MainThread)
    \/ nativeLoadModelToNPU(MainThread)
    \/ nativeReleaseNPU(MainThread)
    \/ nativeLoadMistralINT8(MainThread)
    \/ nativeLoadMobileNetV3(MainThread)
    \/ nativeIsGPUAvailable(MainThread)

SpecAccel == Init /\ [][NextAccel]_vars

\* one caller of the OpenCL entry points of gpu_backend.cpp compiled with
\* ENABLE_OPENCL
NextOpenCL ==
    \/ nativeSupportsOpenCL(MainThread)
    \/ nativeInitOpenCL(MainThread)
    \/ nativeCleanupOpenCL(MainThread)

SpecOpenCL == Init /\ [][NextOpenCL]_vars

\* ------------------------------------------------------------ vocabulary
\* positions of nativeGenerate after the g_context check has passed
GenInFlight == {"gen_decode", "gen_sampler_check", "gen_sampler_free",
                "gen_sampler_new", "gen_chain_add",
                "gen_sample"}
\* positions of nativeFree after the mutex has been acquired
FreeTeardown == {"free_sampler", "free_sampler_null", "free_context",
                 "free_context_null", "free_model", "free_model_null",
                 "free_return"}
FreePositions == FreeTeardown \cup {"free_lock"}
ReleasePositions == {"wrel_lock", "wrel_free", "wrel_null", "wrel_return"}
LoadInitPositions == {"load_lock", "load_free", "load_null", "load_file",
                      "init_lock", "init_free", "init_null", "init_create",
                      "init_sampler_free", "init_sampler"}
\* positions at which an entry point reads g_model without holding the mutex
ModelReaderPositions == {"tok_check", "tok_use", "dec_check", "dec_use",
                         "eos_check", "eos_use", "vocab_check", "vocab_use"}

BetweenOperations == \A t \in Threads : pc[t] = "idle"
Returned(t, o) == pc[t] = "idle" /\ op[t] = o

SlotsEmpty == g_model = NULL /\ g_context = NULL /\ g_sampler = NULL
NothingLoadedLLM ==
    SlotsEmpty /\ liveModels = {} /\ liveContexts = {} /\ liveSamplers = {}
NothingLoadedWhisper == g_whisper_ctx = NULL /\ liveWhisper = {}

TypeOK ==
    /\ g_model \in Handles \cup {NULL}
    /\ g_context \in Handles \cup {NULL}
    /\ g_sampler \in Handles \cup {NULL}
    /\ ctx_model \in Handles \cup {NULL}
    /\ g_whisper_ctx \in Handles \cup {NULL}
    /\ g_model_mutex \in Threads \cup {NoThread}
    /\ g_whisper_mutex \in Threads \cup {NoThread}
    /\ g_backend_initialized \in BOOLEAN
    /\ g_whisper_initialized \in BOOLEAN
    /\ g_detected_language \in Languages
    /\ liveModels \subseteq Handles
    /\ liveContexts \subseteq Handles
    /\ liveSamplers \subseteq Handles
    /\ liveWhisper \subseteq Handles
    /\ pc \in [Threads -> STRING]
    /\ ret \in [Threads -> Int]
    /\ \A t \in Threads : tokensOut[t] \in Seq(Tokens)
    /\ \A h \in Handles : Len(sampler_chain[h]) <= 3 * Cardinality(Threads)
    /\ ctx_poisoned \in BOOLEAN
    /\ ret_str \in [Threads -> Languages \cup {""}]
    /\ model_owner \in Workloads \cup {"none"}
    /\ g_npuAvailable \in BOOLEAN
    /\ g_npuInitialized \in BOOLEAN
    /\ nnapi_delegate \in {"none", "enabled", "disabled (CPU fallback)"}
    /\ gpu_available \in BOOLEAN
    /\ g_cl_platform \in Handles \cup {NULL}
    /\ g_cl_device \in Handles \cup {NULL}
    /\ g_cl_context \in Handles \cup {NULL}
    /\ g_cl_queue \in Handles \cup {NULL}
    /\ g_opencl_initialized \in BOOLEAN
    /\ liveClContexts \subseteq Handles
    /\ liveClQueues \subseteq Handles
    /\ releasedTwice \subseteq Handles

\* ---------------------------------------------------------------- claims
\* C1: between operations, a non-empty context slot implies a non-empty
\* model slot.
C1_ContextImpliesModel ==
    BetweenOperations => (g_context # NULL => g_model # NULL)

\* C2: when nativeLoadModel returns, the context and sampler slots are empty,
\* and a context that is held was built from the model that is held.
C2_LoadTearsDownContextAndSampler ==
    /\ \A t \in Threads :
          Returned(t, "nativeLoadModel") => g_context = NULL /\ g_sampler = NULL
    /\ BetweenOperations => (g_context # NULL => ctx_model = g_model)

\* C3: while a thread is inside nativeGenerate past its context check, no
\* other thread is inside the teardown of nativeFree, and the context and
\* sampler a generate step is about to use have not been released.
C3_FreeWaitsForGenerate ==
    /\ \A t, u \in Threads :
          (t # u /\ pc[t] \in GenInFlight) => pc[u] \notin FreeTeardown
    /\ \A t \in Threads :
          pc[t] \in {"gen_decode", "gen_sample"} => g_context \in liveContexts
    /\ \A t \in Threads :
          pc[t] \in {"gen_chain_add", "gen_sample"} => g_sampler \in liveSamplers

\* C4: every step that writes the model, context or sampler slot is taken by
\* the thread that holds g_model_mutex, and a thread about to release the
\* sampler in nativeGenerate releases a sampler that is still live.
C4_SlotWritesUnderMutex ==
    /\ [][\A t \in Threads :
             (pc'[t] # pc[t] /\ <<g_model, g_context, g_sampler>>' #
                                <<g_model, g_context, g_sampler>>)
                => g_model_mutex = t]_vars
    /\ [](\A t \in Threads :
             pc[t] = "gen_sampler_free" => g_sampler \in liveSamplers)

\* C5: whenever a thread is at a position where it reads a slot without the
\* mutex, the slot is empty or holds a resource that has not been released.
C5_ReadersSeeInstalledOrEmpty ==
    /\ \A t \in Threads :
          pc[t] \in ModelReaderPositions =>
             (g_model = NULL \/ g_model \in liveModels)
    /\ \A t \in Threads :
          pc[t] = "gen_check" => (g_context = NULL \/ g_context \in liveContexts)

\* C6: for the language model and for the speech model, every live model
\* object is the one held in the slot (so at most one is live, and the old
\* one is released before the new one is installed); between operations the
\* slot holds a live object or nothing.
C6_AtMostOneLiveModel ==
    /\ liveModels \subseteq {g_model}
    /\ liveWhisper \subseteq {g_whisper_ctx}
    /\ Cardinality(liveModels) <= 1
    /\ Cardinality(liveWhisper) <= 1
    /\ BetweenOperations =>
          /\ g_model # NULL => g_model \in liveModels
          /\ g_whisper_ctx # NULL => g_whisper_ctx \in liveWhisper

\* C6 witness: a reload has replaced the model a context was built from, and
\* a speech-model load has just released the speech model it replaces.
C6_Witness ==
    /\ g_model \in liveModels
    /\ ctx_model # NULL
    /\ ctx_model # g_model
    /\ pc[MainThread] = "wload_null"
    /\ liveWhisper = {}

\* C7: between operations, a non-empty sampler slot implies a non-empty
\* context slot.
C7_SamplerImpliesContext ==
    BetweenOperations => (g_sampler # NULL => g_context # NULL)

\* C8: nativeGenerate gets past its check (and so invokes the decode step and
\* the sampler) only when both the model slot and the context slot are
\* non-empty.
C8_GenerateOnlyWhenReady ==
    \A t \in Threads :
       pc[t] \in GenInFlight => (g_model # NULL /\ g_context # NULL)

\* C9: when nativeFree has returned all three slots are empty and nothing is
\* left unreleased; the slots stay empty until load or init is called; and a
\* nativeGenerate that finds the context slot empty returns the no-context
\* error without going on to the decode step.
C9_FreeLeavesUnloaded ==
    /\ [](\A t \in Threads : Returned(t, "nativeFree") => NothingLoadedLLM)
    /\ [][(SlotsEmpty /\ \A t \in Threads : pc[t] \notin LoadInitPositions)
             => SlotsEmpty']_vars
    /\ [][\A t \in Threads :
             (pc[t] = "gen_check" /\ pc'[t] # pc[t] /\ g_context = NULL)
                => (pc'[t] = "idle" /\ ret'[t] = RET_ERROR)]_vars

\* C9 witness: nativeFree is tearing down the state left by a failed reload
\* (a context without a model).
C9_Witness ==
    /\ pc[MainThread] = "free_context"
    /\ g_context # NULL
    /\ g_model = NULL

\* C10: a step of nativeFree (of nativeReleaseWhisperModel) taken when nothing
\* is loaded releases nothing and leaves the slots empty, and the state in
\* which either of them returns is the nothing-loaded state, so that a second
\* call leaves what the first one left.
C10_FreeIdempotent ==
    /\ [][\A t \in Threads :
             (pc[t] \in FreePositions /\ pc'[t] # pc[t] /\ NothingLoadedLLM)
                => UNCHANGED <<g_model, g_context, g_sampler, liveModels,
                               liveContexts, liveSamplers>>]_vars
    /\ [][\A t \in Threads :
             (pc[t] \in ReleasePositions /\ pc'[t] # pc[t] /\ NothingLoadedWhisper)
                => UNCHANGED <<g_whisper_ctx, liveWhisper>>]_vars
    /\ [](\A t \in Threads :
             /\ Returned(t, "nativeFree") => NothingLoadedLLM /\ ret[t] = RET_OK
             /\ Returned(t, "nativeReleaseWhisperModel") =>
                   NothingLoadedWhisper /\ ret[t] = RET_OK)

\* C10 witness: nativeFree is running with nothing loaded after the bridge
\* has been used, and the speech model has been loaded and released.
C10_Witness ==
    /\ pc[MainThread] = "free_model"
    /\ NothingLoadedLLM
    /\ g_backend_initialized
    /\ NothingLoadedWhisper
    /\ g_detected_language = "fr"
    /\ ~g_whisper_initialized

\* C11: nativeFree releases in dependency order: whenever one of its steps
\* releases the context, the sampler has been released and its slot cleared;
\* whenever one of its steps releases the model, the context and the sampler
\* have been released and their slots cleared.  This holds from every state
\* the slots can be in when nativeFree is called.
C11_FreeReleasesInOrder ==
    [][\A t \in Threads :
          (pc[t] \in FreeTeardown /\ pc'[t] # pc[t]) =>
             /\ (liveContexts' # liveContexts) =>
                   (g_sampler = NULL /\ liveSamplers = {})
             /\ (liveModels' # liveModels) =>
                   /\ g_sampler = NULL /\ liveSamplers = {}
                   /\ g_context = NULL /\ liveContexts = {}]_vars

\* C11 witness: nativeFree has released the sampler and the context and is
\* about to release the model it still holds.
C11_Witness ==
    /\ pc[MainThread] = "free_model"
    /\ g_model \in liveModels
    /\ g_context = NULL /\ liveContexts = {}
    /\ g_sampler = NULL /\ liveSamplers = {}

\* C12: a nativeInitContext that finds the model slot empty returns the
\* no-model error and leaves every slot and every resource as it was; and the
\* context slot goes from empty to non-empty only in the creation step of a
\* nativeInitContext, taken while a model is loaded.
C12_InitNeedsModel ==
    [][/\ \A t \in Threads :
             (pc[t] = "init_lock" /\ pc'[t] # pc[t] /\ g_model = NULL) =>
                /\ pc'[t] = "idle"
                /\ ret'[t] = RET_ERROR
                /\ UNCHANGED <<g_model, g_context, g_sampler, liveModels,
                               liveContexts, liveSamplers>>
       /\ (g_context = NULL /\ g_context' # NULL) =>
             \E t \in Threads :
                /\ pc[t] = "init_create"
                /\ op[t] = "nativeInitContext"
                /\ g_model \in liveModels]_vars

\* C12 witness: nativeInitContext has returned the no-model error with the
\* model slot empty.
C12_Witness ==
    /\ Returned(MainThread, "nativeInitContext")
    /\ ret[MainThread] = RET_ERROR
    /\ g_model = NULL

\* C13: when nativeInitContext has returned success, the context slot holds
\* the only unreleased context, built from the loaded model and with no
\* failed decode, and the sampler slot holds the only unreleased sampler,
\* whose chain has no stage yet; and the prior context and the prior sampler
\* that nativeInitContext releases are unreleased until then, so each is
\* released once.
C13_InitInstallsContextAndSampler ==
    \A t \in Threads :
       /\ (Returned(t, "nativeInitContext") /\ ret[t] = RET_OK) =>
             /\ g_model \in liveModels
             /\ g_context # NULL /\ liveContexts = {g_context}
             /\ ctx_model = g_model /\ ~ctx_poisoned
             /\ g_sampler # NULL /\ liveSamplers = {g_sampler}
             /\ sampler_chain[g_sampler] = <<>>
       /\ (pc[t] = "init_free" /\ g_context # NULL) =>
             g_context \in liveContexts
       /\ (pc[t] = "init_sampler_free" /\ g_sampler # NULL) =>
             g_sampler \in liveSamplers

\* C13 witness: a nativeInitContext has succeeded where a sampler was already
\* installed: the new sampler sits at another address than the first one.
C13_Witness ==
    /\ Returned(MainThread, "nativeInitContext")
    /\ ret[MainThread] = RET_OK
    /\ g_context \in liveContexts
    /\ g_sampler \in liveSamplers \ {1}

\* the number of tokens the text of thread t's nativeTokenize call needs
TokensNeeded(t) == Len(Tokenization(arg[t].text, arg[t].add_bos))

\* C14: when nativeTokenize has returned from a call made with a model
\* loaded: if the text needs more tokens than the caller's array holds, the
\* returned value is the negated number of tokens needed and nothing was
\* written to the caller's array; otherwise the returned count is the number
\* of tokens, is at most the capacity, and the array holds all of them.
C14_TokenizeNeverTruncates ==
    \A t \in Threads :
       (Returned(t, "nativeTokenize") /\ g_model # NULL) =>
          IF TokensNeeded(t) > arg[t].capacity
            THEN /\ ret[t] = -TokensNeeded(t)
                 /\ tokensOut[t] = <<>>
            ELSE /\ ret[t] = TokensNeeded(t)
                 /\ ret[t] <= arg[t].capacity
                 /\ tokensOut[t] = Tokenization(arg[t].text, arg[t].add_bos)

\* C14 witness: a text of two tokens was tokenized into an array of one
\* element and the call reported two.
C14_Witness ==
    /\ Returned(MainThread, "nativeTokenize")
    /\ g_model # NULL
    /\ arg[MainThread].capacity = 1
    /\ ret[MainThread] = -2
    /\ tokensOut[MainThread] = <<>>

\* C15: with a model loaded, nativeTokenize of the empty text returns a count
\* between 0 and the capacity of the caller's array, whatever that capacity
\* is; it never returns the negative value that reports a too small array.
C15_EmptyTextNeverTooSmall ==
    \A t \in Threads :
       (Returned(t, "nativeTokenize") /\ g_model # NULL
          /\ arg[t].text = <<>>) =>
             (ret[t] >= 0 /\ ret[t] <= arg[t].capacity)

\* C16: when nativeGenerate is about to draw a token, and when it has
\* returned one, the chain of the installed sampler has exactly three
\* stages: top-p filtering with the call's top_p, temperature scaling with
\* the call's temperature, the stochastic draw, in this order.
C16_SamplerChainOfThisCall ==
    \A t \in Threads :
       (\/ pc[t] = "gen_sample"
        \/ Returned(t, "nativeGenerate") /\ ret[t] >= 0) =>
          /\ g_sampler \in liveSamplers
          /\ sampler_chain[g_sampler] =
                <<llama_sampler_init_top_p(arg[t].topP),
                  llama_sampler_init_temp(arg[t].temperature),
                  llama_sampler_init_dist>>

\* C16 witness: a nativeGenerate called with top_p 0.9 and temperature 0.2
\* has returned a token, drawn by a sampler that replaced an earlier one.
C16_Witness ==
    /\ Returned(MainThread, "nativeGenerate")
    /\ ret[MainThread] \in Tokens
    /\ arg[MainThread].topP = 9
    /\ arg[MainThread].temperature = 2
    /\ g_sampler \in liveSamplers
    /\ Len(sampler_chain[g_sampler]) = 3

\* C17: the step of nativeGenerate in which the decode fails returns the
\* decode error, which is neither the no-context error nor a token id, goes
\* straight back to the caller without drawing a token, and leaves the three
\* slots, the resources and the sampler chains as they were.
C17_DecodeFailureReturnsDecodeError ==
    [][\A t \in Threads :
          (pc[t] = "gen_decode" /\ pc'[t] = "idle") =>
             /\ ret'[t] = RET_DECODE_FAILED
             /\ ret'[t] # RET_ERROR
             /\ ret'[t] \notin Tokens
             /\ UNCHANGED <<g_model, g_context, g_sampler, liveModels,
                            liveContexts, liveSamplers, sampler_chain>>]_vars

\* C17 witness: nativeGenerate has returned the decode error and the context
\* and the sampler are still installed.
C17_Witness ==
    /\ Returned(MainThread, "nativeGenerate")
    /\ ret[MainThread] = RET_DECODE_FAILED
    /\ g_context \in liveContexts
    /\ g_sampler \in liveSamplers

\* C18: once a decode has failed on the context in the context slot, no
\* nativeGenerate gets as far as decoding on that context, and none returns
\* a token, until nativeInitContext has installed another context.
C18_PoisonedContextNotUsed ==
    \A t \in Threads :
       /\ pc[t] \in GenInFlight => ~ctx_poisoned
       /\ (Returned(t, "nativeGenerate") /\ ret[t] >= 0) => ~ctx_poisoned

\* C19: when nativeDecode has returned, the returned string has a length,
\* never an error code, and it is empty when no model is loaded and when the
\* vocabulary cannot convert the token or converts it to nothing; and no step
\* of nativeDecode changes a slot or a resource.
C19_DecodeNeverFails ==
    /\ [](\A t \in Threads :
            Returned(t, "nativeDecode") =>
               /\ ret[t] >= 0
               /\ (g_model = NULL \/ llama_token_to_piece(arg[t].token) <= 0)
                     => ret[t] = 0)
    /\ [][\A t \in Threads :
             (pc[t] \in {"dec_check", "dec_use"} /\ pc'[t] # pc[t]) =>
                UNCHANGED <<g_model, g_context, g_sampler, liveModels,
                            liveContexts, liveSamplers>>]_vars

\* C19 witness: with a model loaded, nativeDecode of a token the vocabulary
\* cannot convert has returned the empty string.
C19_Witness ==
    /\ Returned(MainThread, "nativeDecode")
    /\ g_model # NULL
    /\ arg[MainThread].token = InvalidToken
    /\ ret[MainThread] = 0

\* C20: when nativeIsEOS has returned, the answer is false if no model is
\* loaded, and otherwise true exactly if the token is the end marker of the
\* loaded vocabulary.
C20_IsEOSExactlyEndMarker ==
    \A t \in Threads :
       Returned(t, "nativeIsEOS") =>
          ret[t] = IF g_model # NULL /\ arg[t].token = VocabEos
                     THEN JNI_TRUE ELSE JNI_FALSE

\* C20 witness: with a model loaded, nativeIsEOS of the end marker has
\* answered true.
C20_Witness ==
    /\ Returned(MainThread, "nativeIsEOS")
    /\ g_model # NULL
    /\ arg[MainThread].token = VocabEos
    /\ ret[MainThread] = JNI_TRUE

\* C22: no step of nativeLoadVisionModel or nativeReleaseVisionModel
\* releases or replaces a model that a language-model load installed, and
\* none changes the context slot or the sampler slot or releases a context
\* or a sampler.
C22_VisionLeavesLanguageModel ==
    [][\A t \in Threads :
          (op[t] \in VisionOps /\ pc[t] # "idle") =>
             /\ model_owner = "language-model" =>
                   UNCHANGED <<g_model, liveModels>>
             /\ UNCHANGED <<g_context, g_sampler, liveContexts,
                            liveSamplers>>]_vars

\* the only model parameters a CPU-only plan hands to the runtime
CpuOnlyParams == llama_model_params(0)

\* C27: whatever accelerator setting a language-model load requests, the
\* parameters it hands to the model runtime are those of the CPU-only plan.
C27_LoadPlanIgnoresAccelerator ==
    \A t \in Threads :
       Returned(t, "nativeLoadModel") => model_params = CpuOnlyParams

\* C30: when nativeInitContext has succeeded, the value it returned to the
\* caller is the size of the context the runtime granted.
C30_InitReportsEffectiveSize ==
    \A t \in Threads :
       (Returned(t, "nativeInitContext") /\ g_model # NULL
          /\ g_context \in liveContexts) =>
             ret[t] = llama_n_ctx(arg[t].contextSize)

\* the last whisper_full pass succeeded and left at least one segment
PassDetected(pass) == pass.result = 0 /\ pass.n_segments > 0

\* C23: a nativeTranscribe that finds no model loaded returns the empty
\* string at once, without a whisper_full pass; and when the pass of a
\* nativeTranscribe has failed, the returned string holds the text of no
\* segment, whatever the failed pass left in the context.
C23_TranscribeFailsClean ==
    /\ [](\A t \in Threads :
            (Returned(t, "nativeTranscribe") /\ g_whisper_ctx # NULL
               /\ whisper_pass.result # 0) => ret[t] = 0)
    /\ [][\A t \in Threads :
             (pc[t] = "wtr_lock" /\ pc'[t] # pc[t] /\ g_whisper_ctx = NULL) =>
                /\ pc'[t] = "idle"
                /\ ret'[t] = 0
                /\ UNCHANGED whisper_pass]_vars

\* C23 witness: the pass of a nativeTranscribe failed leaving segments in the
\* context, and the call returned the empty string.
C23_Witness ==
    /\ Returned(MainThread, "nativeTranscribe")
    /\ g_whisper_ctx # NULL
    /\ whisper_pass.result # 0
    /\ whisper_pass.n_segments > 0
    /\ ret[MainThread] = 0

\* C24: no step of nativeTranscribe or of nativeTranscribeStreaming, whether
\* the pass succeeds or fails, changes the speech model slot, releases the
\* speech model, or changes the current language.
C24_TranscribeKeepsBridgeState ==
    [][\A t \in Threads :
          (op[t] \in {"nativeTranscribe", "nativeTranscribeStreaming"}
             /\ pc[t] # "idle") =>
                UNCHANGED <<g_whisper_ctx, liveWhisper, g_detected_language,
                            g_whisper_initialized>>]_vars

\* C24 witness: a nativeTranscribeStreaming whose pass failed has returned,
\* with the model still loaded and the language still the one set before.
C24_Witness ==
    /\ Returned(MainThread, "nativeTranscribeStreaming")
    /\ g_whisper_ctx \in liveWhisper
    /\ whisper_pass.result # 0
    /\ g_detected_language = "fr"

C26_DetectNeverFails ==
    /\ [](\A t \in Threads :
            Returned(t, "nativeDetectLanguage") => ret_str[t] \in Languages)
    /\ [][\A t \in Threads :
             (\/ pc[t] = "wdl_lock" /\ pc'[t] # pc[t] /\ g_whisper_ctx = NULL
              \/ pc[t] = "wdl_full" /\ pc'[t] # pc[t]
                    /\ ~PassDetected(whisper_pass')) =>
                UNCHANGED g_detected_language]_vars

\* C26 witness: the pass of a nativeDetectLanguage yielded no segment; the
\* call returned a tag and the current language is still the one set before.
C26_Witness ==
    /\ Returned(MainThread, "nativeDetectLanguage")
    /\ g_whisper_ctx # NULL
    /\ whisper_pass.result = 0
    /\ whisper_pass.n_segments = 0
    /\ ret_str[MainThread] = "en"
    /\ g_detected_language = "fr"

\* positions at which an entry point waits for g_model_mutex
ModelLockPositions == {"load_lock", "init_lock", "free_lock"}
\* positions at which an entry point waits for g_whisper_mutex
WhisperLockPositions == {"wload_lock", "wrel_lock", "wtr_lock", "wst_lock",
                         "wdl_lock"}

\* C21: the two bridges never contend.  A thread waiting for the speech lock
\* while that lock is free can take its next step whoever holds the language
\* model lock, and a thread waiting for the language-model lock while that
\* lock is free can take its next step whoever holds the speech lock; no
\* thread holds both locks; a step of a speech entry point leaves the
\* language-model lock alone and a step of a language-model entry point
\* leaves the speech lock alone.
C21_BridgesNeverContend ==
    /\ [](\A t \in Threads :
            /\ (pc[t] \in WhisperLockPositions /\ g_whisper_mutex = NoThread)
                  => ENABLED StepSpeech(t)
            /\ (pc[t] \in ModelLockPositions /\ g_model_mutex = NoThread)
                  => ENABLED StepModel(t)
            /\ ~(g_model_mutex = t /\ g_whisper_mutex = t))
    /\ [][\A t \in Threads :
             /\ (pc'[t] # pc[t] /\ pc[t] \in LoadInitPositions \cup FreePositions)
                   => UNCHANGED g_whisper_mutex
             /\ (pc'[t] # pc[t] /\ pc[t] # "idle"
                   /\ pc[t] \notin LoadInitPositions \cup FreePositions)
                   => UNCHANGED g_model_mutex]_vars

\* C21 witness: one thread holds the language-model lock inside nativeFree
\* while the other holds the speech lock inside a transcription pass.
C21_Witness ==
    /\ g_model_mutex = MainThread
    /\ pc[MainThread] \in FreeTeardown
    /\ g_whisper_mutex = SpeechThread
    /\ pc[SpeechThread] = "wtr_full"

\* C28: NPU detection given an empty SDK-level property or an empty SoC
\* property reports no NPU, and GPU-availability detection that finds no
\* usable signal (no OpenCL platform answer, empty hardware property) reports
\* no GPU.
C28_UnreadableSignalMeansAbsent ==
    \A t \in Threads :
       /\ (Returned(t, "nativeDetectNPU")
             /\ (arg[t].sdkVersion = <<>> \/ arg[t].soc = <<>>))
             => ret[t] = JNI_FALSE /\ ~g_npuAvailable
       /\ (Returned(t, "nativeIsGPUAvailable")
             /\ arg[t].hardware = <<>>
             /\ ~(arg[t].build = "ENABLE_OPENCL" /\ arg[t].cl.ret = CL_SUCCESS))
             => ret[t] = JNI_FALSE

\* the backend a vision model load has selected
SelectedBackend == IF nnapi_delegate = "enabled" THEN "NPU" ELSE "CPU"

\* C29: a vision model load selects the NPU when the NPU was detected, else
\* the GPU when the GPU was reported available, else the CPU; and neither
\* nativeLoadMobileNetV3 nor nativeLoadModelToNPU reports a failure.
C29_VisionBackendPriority ==
    \A t \in Threads :
       /\ Returned(t, "nativeLoadMobileNetV3") =>
             /\ SelectedBackend = IF g_npuAvailable THEN "NPU"
                                  ELSE IF gpu_available THEN "GPU" ELSE "CPU"
             /\ ret[t] = JNI_TRUE
       /\ Returned(t, "nativeLoadModelToNPU") => ret[t] = JNI_TRUE

\* C31: when nativeInitContext has created a context, the thread count in
\* the parameters it gave the runtime is the smaller of 4 and the number of
\* cores of the host.
C31_ThreadCountIsMinOfFourAndCores ==
    \A t \in Threads :
       (Returned(t, "nativeInitContext") /\ ret[t] = RET_OK) =>
          /\ ctx_params.n_threads = Min(4, arg[t].cores)
          /\ ctx_params.n_threads_batch = Min(4, arg[t].cores)

C33_FailedLoadLeavesSlotEmpty ==
    \A t \in Threads :
       /\ pc[t] = "load_file" => g_model = NULL /\ liveModels = {}
       /\ pc[t] = "wload_file" => g_whisper_ctx = NULL /\ liveWhisper = {}
       /\ (Returned(t, "nativeLoadModel") /\ ret[t] = RET_ERROR)
             => g_model = NULL /\ liveModels = {}
       /\ (Returned(t, "nativeLoadWhisperModel") /\ ret[t] = JNI_FALSE)
             => g_whisper_ctx = NULL /\ liveWhisper = {}

\* C33 witness: a nativeLoadWhisperModel has failed after an earlier load had
\* succeeded (the initialisation flag is still set), and the slot is empty.
C33_Witness ==
    /\ Returned(MainThread, "nativeLoadWhisperModel")
    /\ ret[MainThread] = JNI_FALSE
    /\ g_whisper_initialized
    /\ g_whisper_ctx = NULL

\* C34: no step of nativeInitContext changes the model slot or releases the
\* model; a nativeInitContext that returns from its context creation step
\* does so with an error; and when nativeInitContext has failed while a
\* model is loaded, the context slot is empty and no context is live.
C34_FailedInitLeavesNoContext ==
    /\ [](\A t \in Threads :
            (Returned(t, "nativeInitContext") /\ ret[t] # RET_OK
               /\ g_model # NULL) =>
                  g_context = NULL /\ liveContexts = {})
    /\ [][\A t \in Threads :
             /\ (op[t] = "nativeInitContext" /\ pc[t] # "idle")
                   => UNCHANGED <<g_model, liveModels>>
             /\ (pc[t] = "init_create" /\ pc'[t] = "idle")
                   => ret'[t] = RET_ERROR /\ g_context' = NULL]_vars

\* C34 witness: nativeInitContext has failed with a model loaded, after an
\* earlier nativeInitContext had succeeded (its sampler is still there).
C34_Witness ==
    /\ Returned(MainThread, "nativeInitContext")
    /\ ret[MainThread] = RET_ERROR
    /\ g_model \in liveModels
    /\ g_sampler \in liveSamplers
    /\ g_context = NULL

\* C35: when nativeTokenize has returned from a call made with a model
\* loaded whose text needs more tokens than the caller's array holds, the
\* value returned is not the value nativeTokenize returns when no model is
\* loaded.
C35_TooSmallDiffersFromNoModel ==
    \A t \in Threads :
       (Returned(t, "nativeTokenize") /\ g_model # NULL
          /\ TokensNeeded(t) > arg[t].capacity) => ret[t] # RET_ERROR

\* C36: when nativeTranscribe has returned from a pass that succeeded, the
\* value returned is not the empty string, which is what nativeTranscribe
\* returns when no model is loaded and when the pass fails.
C36_TranscribeFailureIsDistinct ==
    \A t \in Threads :
       (Returned(t, "nativeTranscribe") /\ g_whisper_ctx # NULL
          /\ whisper_pass.result = 0) => ret[t] # 0

\* C37: when nativeDetectLanguage has returned with a speech model loaded,
\* the tag it returned is the current language.
C37_DetectReturnsCurrentLanguage ==
    \A t \in Threads :
       (Returned(t, "nativeDetectLanguage") /\ g_whisper_ctx # NULL)
          => ret_str[t] = g_detected_language

\* C38: the NPU is initialised only if it is available; and when
\* nativeInitializeNPU has returned with the NPU not available, it returned
\* false and the NPU is not initialised.
C38_InitializedImpliesAvailable ==
    /\ g_npuInitialized => g_npuAvailable
    /\ \A t \in Threads :
          (Returned(t, "nativeInitializeNPU") /\ ~g_npuAvailable)
             => ret[t] = JNI_FALSE /\ ~g_npuInitialized

\* C39: no OpenCL context is released twice; the only live context and
\* command queue are the ones in g_cl_context and g_cl_queue, and after
\* nativeCleanupOpenCL none is live; and nativeInitOpenCL called while
\* initialised returns 0 and creates nothing.
C39_OpenCLReleasedExactlyOnce ==
    /\ [](/\ releasedTwice = {}
          /\ liveClContexts \subseteq {g_cl_context}
          /\ liveClQueues \subseteq {g_cl_queue}
          /\ \A t \in Threads :
                Returned(t, "nativeCleanupOpenCL")
                   => liveClContexts = {} /\ liveClQueues = {})
    /\ [][\A t \in Threads :
             (g_opencl_initialized /\ op'[t] = "nativeInitOpenCL"
                /\ <<op, ret, arg>>' # <<op, ret, arg>>)
                => ret'[t] = 0 /\ UNCHANGED clVars]_vars
====
